---- MODULE Spec2Model ----
(***************************************************************************)
(* State-machine model of anki-mcp-server: the tool dispatcher, the tool   *)
(* handlers (DeckTools, NoteTools, ModelTools, ToolFactory), the entity    *)
(* services (DeckService, NoteService, ModelService, LanguageService) and  *)
(* the AnkiConnect endpoint they call.                                     *)
(*                                                                         *)
(* One tool call is one action.  A handler is a chain of upstream calls;   *)
(* it is written as an operator that threads a context c through the       *)
(* calls: c.decks and c.models are the upstream collection, c.log the      *)
(* upstream calls issued so far by this request, c.plan the answers the    *)
(* upstream gives in this request (which calls fail).                      *)
(*                                                                         *)
(* JavaScript objects are functions from the keys that are present to      *)
(* their values; an absent key is `undefined`.  Strings are TLA+ strings.  *)
(* The values of a `fields` map carry their JavaScript type:               *)
(* [t |-> "string", v |-> "Q"] or [t |-> "number", v |-> "123"].           *)
(* The Chinese names of the source are transliterated (ZhFront is the      *)
(* field the source calls by the Chinese word for "front").                *)
(***************************************************************************)
EXTENDS Integers, Sequences, FiniteSets, TLC

VARIABLES
    wiring,    \* which server shell is built: "server" (AnkiMcpServer.ts) or "router" (ToolRouter.ts)
    language,  \* LanguageService.language
    decks,     \* upstream: the deck names
    models,    \* upstream: note type name -> [fields, templates, css]
    handlers,  \* the tool handlers of the server: "pending", "registered" or "failed"
    typeTools, \* the names of the synthesized tools captured when the handlers were set up
    last,      \* the last tool call: its name, arguments, upstream plan, response and upstream calls
    prev,      \* summary of the tool call before the last one
    setup,     \* the upstream calls made while the handlers were set up
    listing,   \* the answer to the outstanding tools/list request, if there is one
    noteStore, \* upstream: note id -> [fields, tags]
    tasks      \* the requests being served at once, each at its point of suspension

vars ==
    <<wiring, language, decks, models, handlers, typeTools, last, prev, setup, listing,
      noteStore, tasks>>

-----------------------------------------------------------------------------
(* Bounds *)

\* the longest `notes` array of a batch_create_notes call
MaxBatch == 2

-----------------------------------------------------------------------------
(* JavaScript strings *)

Whitespace == {" ", "\t"}

UpperCase == "ABCDEFGHIJKLMNOPQRSTUVWXYZ"
LowerCase == "abcdefghijklmnopqrstuvwxyz"

CharAt(s, i) == SubSeq(s, i, i)
Rest(s) == SubSeq(s, 2, Len(s))

\* one character of String.prototype.toLowerCase
LowerChar(ch) ==
    IF \E i \in 1..Len(UpperCase) : CharAt(UpperCase, i) = ch
    THEN CharAt(LowerCase, CHOOSE i \in 1..Len(UpperCase) : CharAt(UpperCase, i) = ch)
    ELSE ch

RECURSIVE ToLowerCase(_)
ToLowerCase(s) ==
    IF Len(s) = 0 THEN "" ELSE LowerChar(CharAt(s, 1)) \o ToLowerCase(Rest(s))

RECURSIVE SkipWhitespace(_)
SkipWhitespace(s) ==
    IF Len(s) = 0 THEN ""
    ELSE IF CharAt(s, 1) \in Whitespace THEN SkipWhitespace(Rest(s)) ELSE s

\* s.replace(/\s+/g, "_"): every run of whitespace becomes one underscore
RECURSIVE ReplaceSpaces(_)
ReplaceSpaces(s) ==
    IF Len(s) = 0 THEN ""
    ELSE IF CharAt(s, 1) \in Whitespace
         THEN "_" \o ReplaceSpaces(SkipWhitespace(Rest(s)))
         ELSE CharAt(s, 1) \o ReplaceSpaces(Rest(s))

\* s.replace(/_/g, " "): every underscore becomes one space
RECURSIVE ReplaceUnderscores(_)
ReplaceUnderscores(s) ==
    IF Len(s) = 0 THEN ""
    ELSE (IF CharAt(s, 1) = "_" THEN " " ELSE CharAt(s, 1)) \o ReplaceUnderscores(Rest(s))

\* mutant of TypeToolMatch: the pattern without its _note suffix
TypeToolMatch_prefixOnly(name) ==
    LET hit == Len(name) > Len("create_") /\ SubSeq(name, 1, Len("create_")) = "create_"
    IN  [matched |-> hit,
         group   |-> IF hit THEN SubSeq(name, Len("create_") + 1, Len(name)) ELSE ""]

\* name.match(/^create_(.+)_note$/): whether it matches, and the captured group
TypeToolMatch(name) ==
    LET n == Len(name)
        hit == /\ n >= Len("create_") + 1 + Len("_note")
               /\ SubSeq(name, 1, Len("create_")) = "create_"
               /\ SubSeq(name, n - Len("_note") + 1, n) = "_note"
    IN  [matched |-> hit,
         group   |-> IF hit THEN SubSeq(name, Len("create_") + 1, n - Len("_note")) ELSE ""]

\* `create_${modelName.replace(/\s+/g, "_")}_note`
TypeToolName(modelName) == "create_" \o ReplaceSpaces(modelName) \o "_note"

-----------------------------------------------------------------------------
(* JavaScript objects and errors *)

\* null / undefined in place of an object
Null == [isNull |-> TRUE]

Has(obj, key) == obj # Null /\ key \in DOMAIN obj

\* !obj.key for a string-valued key: absent or the empty string
Truthy(obj, key) == Has(obj, key) /\ obj[key] # ""

Str(s) == [t |-> "string", v |-> s]
Num(s) == [t |-> "number", v |-> s]

\* truthiness of a fields-map value
TruthyValue(x) == ~(x.t = "string" /\ x.v = "") /\ ~(x.t = "number" /\ x.v = "0")

NoError == [code |-> "", msg |-> ""]
McpError(code, msg) == [code |-> code, msg |-> msg]

\* what a service call gives back: the context, and a value or a thrown error
Return(c, val) == [c |-> c, ok |-> TRUE, val |-> val, err |-> NoError]
Throw(c, err) == [c |-> c, ok |-> FALSE, val |-> Null, err |-> err]

\* `const r = await e; ...`: e is evaluated once and its outcome bound to r
Await(e, K(_)) == CHOOSE v \in {K(r) : r \in {e}} : TRUE

\* the response of a tool call
Envelope(text) == [kind |-> "ok", content |-> <<[type |-> "text", text |-> text]>>, error |-> NoError]
Failure(err) == [kind |-> "error", content |-> <<>>, error |-> err]

ConnectionMessage ==
    "Failed to connect to Anki. Please make sure Anki is running and the AnkiConnect plugin is enabled."

-----------------------------------------------------------------------------
(* config/index.ts (not among the sources): the canonical note type names *)

NoteModels ==
    [basic |-> [en |-> "Basic", zh |-> "ZhBasic"],
     cloze |-> [en |-> "Cloze", zh |-> "ZhCloze"]]

\* config.noteModels[type.toLowerCase()][language]; indexing an absent entry
\* of noteModels by the language is a TypeError
ConfigService_getModelName(type, lang) ==
    LET key == ToLowerCase(type)
    IN  IF key \in DOMAIN NoteModels
        THEN [ok |-> TRUE, val |-> NoteModels[key][lang]]
        ELSE [ok |-> FALSE, val |-> ""]

TypeError == McpError("TypeError", "Cannot read properties of undefined")

-----------------------------------------------------------------------------
(* The AnkiConnect endpoint and AnkiConnectService.invoke *)

EmptyObject == <<>>

\* the three fan-out queries of a note type
ModelQueries == {"modelFieldNames", "modelTemplates", "modelStyling"}

RECURSIVE CountAction(_, _)
CountAction(log, action) ==
    IF log = <<>> THEN 0
    ELSE (IF Head(log).action = action THEN 1 ELSE 0) + CountAction(Tail(log), action)

\* Whether the upstream answers this call with an error.  The plan of the
\* request says which actions fail; addNote calls fail by their ordinal.
UpstreamFails(c, action, params) ==
    CASE action = "version" -> ~c.plan.probe
      [] action = "addNote" -> (CountAction(c.log, "addNote") + 1) \in c.plan.badAdd
      [] action \in ModelQueries ->
            \/ action \in c.plan.bad
            \/ params.modelName \in c.plan.badModels
            \/ params.modelName \notin DOMAIN c.models
      [] OTHER -> action \in c.plan.bad

\* AnkiConnect's card templates of a new model, by template name
TemplatesOf(cardTemplates) ==
    [n \in {cardTemplates[i].name : i \in DOMAIN cardTemplates} |->
        LET i == CHOOSE j \in DOMAIN cardTemplates : cardTemplates[j].name = n
        IN  [Front |-> cardTemplates[i].front, Back |-> cardTemplates[i].back]]

\* the result of a successful upstream call
UpstreamResult(c, action, params) ==
    CASE action = "deckNames" -> c.decks
      [] action = "modelNames" -> DOMAIN c.models
      [] action = "modelFieldNames" -> c.models[params.modelName].fields
      [] action = "modelTemplates" -> c.models[params.modelName].templates
      [] action = "modelStyling" -> [css |-> c.models[params.modelName].css]
      [] action = "addNote" -> CountAction(c.log, "addNote") + 1
      [] OTHER -> Null

\* the upstream collection after a successful upstream call
UpstreamDecks(c, action, params) ==
    IF action = "createDeck" THEN c.decks \cup {params.deck} ELSE c.decks

UpstreamModels(c, action, params) ==
    IF action = "createModel"
    THEN (params.modelName :> [fields    |-> params.inOrderFields,
                               templates |-> TemplatesOf(params.cardTemplates),
                               css       |-> params.css]) @@ c.models
    ELSE c.models

\* a collection without notes
NoNotes == <<>>

\* the tags of a space-separated tag string, as Anki splits it
RECURSIVE SplitTags(_, _)
SplitTags(s, word) ==
    IF Len(s) = 0 THEN (IF word = "" THEN {} ELSE {word})
    ELSE IF CharAt(s, 1) = " "
    THEN (IF word = "" THEN {} ELSE {word}) \cup SplitTags(Rest(s), "")
    ELSE SplitTags(Rest(s), word \o CharAt(s, 1))

\* the notes of the collection after a successful upstream call; a call that
\* names a note the collection does not hold changes nothing
UpstreamNotes(c, action, params) ==
    CASE DOMAIN c.notes = {} -> c.notes
      [] action = "updateNoteFields" ->
            [n \in DOMAIN c.notes |->
                IF n = params.note.id.n
                THEN [c.notes[n] EXCEPT !.fields = params.note.fields @@ @]
                ELSE c.notes[n]]
      [] action = "clearTags" ->
            [n \in DOMAIN c.notes |->
                IF \E i \in DOMAIN params.notes : params.notes[i].n = n
                THEN [c.notes[n] EXCEPT !.tags = {}]
                ELSE c.notes[n]]
      [] action = "addTags" ->
            [n \in DOMAIN c.notes |->
                IF \E i \in DOMAIN params.notes : params.notes[i].n = n
                THEN [c.notes[n] EXCEPT !.tags = @ \cup SplitTags(params.tags, "")]
                ELSE c.notes[n]]
      [] action = "deleteNotes" ->
            [n \in {m \in DOMAIN c.notes : \A i \in DOMAIN params.notes : params.notes[i].n # m}
                |-> c.notes[n]]
      [] OTHER -> c.notes

UpstreamError == McpError("InternalError", "Anki error: upstream failure")

\* new Error(msg): an error that is not an McpError
PlainError(msg) == McpError("Error", msg)

\* What one axios.post can come to (validateStatus is null, so every status
\* resolves): a response, an axios error with its code, or no response.
HttpResponse(status, error, result) ==
    [kind |-> "response", status |-> status, error |-> error, result |-> result, code |-> ""]
AxiosError(code) ==
    [kind |-> "axiosError", status |-> 0, error |-> Null, result |-> Null, code |-> code]
NoResponse == [kind |-> "none", status |-> 0, error |-> Null, result |-> Null, code |-> ""]

\* the outcome of one attempt as the plan of the request names it
Exchange(kind, result) ==
    CASE kind = "ok" -> HttpResponse(200, Null, result)
      [] kind = "error" -> HttpResponse(200, Str("upstream failure"), Null)
      [] kind = "status500" -> HttpResponse(500, Null, Null)
      [] kind = "status500error" -> HttpResponse(500, Str("upstream failure"), Null)
      [] kind = "refused" -> AxiosError("ECONNREFUSED")
      [] kind = "timeout" -> AxiosError("ETIMEDOUT")
      [] kind = "reset" -> AxiosError("ECONNRESET")
      [] kind = "unreachable" -> AxiosError("EHOSTUNREACH")
      [] OTHER -> NoResponse

\* The answers the transport has for the first attempt and for a retry.  The
\* plan may script them for one action (a script of one answer gives it to
\* both); otherwise both get the same answer, an error or the result.
Attempts(c, action, params) ==
    IF c.plan.wire.action = action
    THEN [i \in 1..2 |->
             Await(c.plan.wire.attempts[IF i <= Len(c.plan.wire.attempts) THEN i ELSE 1],
                   LAMBDA kind :
             Exchange(kind, IF kind = "ok" THEN UpstreamResult(c, action, params) ELSE Null))]
    ELSE IF UpstreamFails(c, action, params)
    THEN [i \in 1..2 |-> Exchange(IF action = "version" THEN "refused" ELSE "error", Null)]
    ELSE [i \in 1..2 |-> Exchange("ok", UpstreamResult(c, action, params))]

\* what invoke comes to: the value or the error, and the attempts it made
Resolved(val, made) == [ok |-> TRUE, val |-> val, err |-> NoError, made |-> made]
Rejected(err, made) == [ok |-> FALSE, val |-> Null, err |-> err, made |-> made]

\* invoke, lines 105-131: the single retry after ETIMEDOUT or ECONNRESET
RetryAttempt(x, made) ==
    IF x.kind = "axiosError"
    THEN Rejected(McpError("InternalError", "Connection to Anki failed after retry"), made)
    ELSE IF x.kind = "none"
    THEN Rejected(McpError("InternalError", "Connection to Anki failed after retry"), made)
    ELSE Resolved(x.result, made)

\* mutant of Transient: every connection failure is retried
Transient_anyCode(code) == TRUE

\* invoke, line 97: the error codes after which the request is retried
Transient(code) == code \in {"ETIMEDOUT", "ECONNRESET"}

\* AnkiConnectService.invoke over the attempts the transport answers
AnkiConnectService_invoke(wire) ==
    Await(wire[1], LAMBDA x :
    CASE x.kind = "none" -> Rejected(PlainError("Anki error: AnkiConnect error"), <<x>>)
      [] x.kind = "response" ->
            IF x.status # 200
            THEN Rejected(McpError("InternalError", "Anki returned non-200 status"), <<x>>)
            ELSE IF x.error # Null
            THEN Rejected(McpError("InternalError", "Anki error: " \o x.error.v), <<x>>)
            ELSE Resolved(x.result, <<x>>)
      [] x.code = "ECONNREFUSED" ->
            Rejected(McpError("InternalError", "Anki is not running"), <<x>>)
      [] Transient(x.code) -> RetryAttempt(wire[2], <<x, wire[2]>>)
      [] OTHER -> Rejected(McpError("InternalError", "Failed to connect to Anki"), <<x>>))

\* whether the upstream carried the action out: some attempt got its answer
Served(made) == \E i \in DOMAIN made : made[i] = HttpResponse(200, Null, made[i].result)

\* One upstream call through invoke, logged with the batch item it serves
\* and with the attempts made.
Invoke(c, action, params) ==
    Await(AnkiConnectService_invoke(Attempts(c, action, params)), LAMBDA out :
    Await([action |-> action, params |-> params, ok |-> out.ok, item |-> c.item,
           result |-> out.val, made |-> out.made, err |-> out.err], LAMBDA entry :
    Await([c EXCEPT !.log = Append(@, entry),
                    !.decks = IF Served(out.made) THEN UpstreamDecks(c, action, params) ELSE @,
                    !.models = IF Served(out.made) THEN UpstreamModels(c, action, params) ELSE @,
                    !.notes = IF Served(out.made) THEN UpstreamNotes(c, action, params) ELSE @],
          LAMBDA c1 :
    IF out.ok THEN Return(c1, out.val) ELSE Throw(c1, out.err))))

\* AnkiConnectService.checkConnection: the version probe
AnkiConnectService_checkConnection(c) ==
    Await(Invoke(c, "version", EmptyObject), LAMBDA r :
    IF r.ok THEN Return(r.c, TRUE)
    ELSE Throw(r.c, McpError("InternalError", ConnectionMessage)))

-----------------------------------------------------------------------------
(* LanguageService *)

DefaultLanguage == "en"

\* mutant of DetectedLanguage: the Chinese name is looked for first
DetectedLanguage_zhFirst(ok, modelNames) ==
    IF ~ok THEN "en"
    ELSE IF ConfigService_getModelName("Basic", "zh").val \in modelNames THEN "zh"
    ELSE "en"

\* detectLanguage, lines 43-69: the language set from the answer to modelNames
DetectedLanguage(ok, modelNames) ==
    IF ~ok THEN "en"
    ELSE IF ConfigService_getModelName("Basic", "en").val \in modelNames THEN "en"
    ELSE IF ConfigService_getModelName("Basic", "zh").val \in modelNames THEN "zh"
    ELSE "en"

\* detectLanguage: never throws; gives the context and the language it sets
detectLanguage(c) ==
    Await(Invoke(c, "modelNames", EmptyObject), LAMBDA r :
    [c |-> r.c, language |-> DetectedLanguage(r.ok, r.val)])

getFieldNames(type, lang) ==
    IF lang = "en"
    THEN (IF type = "Basic" THEN [front |-> "Front", back |-> "Back"]
                            ELSE [front |-> "Text", back |-> "Back Extra"])
    ELSE (IF type = "Basic" THEN [front |-> "ZhFront", back |-> "ZhBack"]
                            ELSE [front |-> "ZhText", back |-> "ZhBackExtra"])

-----------------------------------------------------------------------------
(* DeckService *)

listDecks(c) == Invoke(c, "deckNames", EmptyObject)

deckExists(c, name) ==
    Await(listDecks(c), LAMBDA r :
    IF r.ok THEN Return(r.c, name \in r.val) ELSE r)

\* mutant of SkipExistingDeck: createDeck without the exists-check
SkipExistingDeck_never(exists) == FALSE

\* createDeck, lines 50-54: an existing deck is not created again
SkipExistingDeck(exists) == exists

DeckService_createDeck(c, name) ==
    IF name = "" THEN Throw(c, McpError("InvalidParams", "Deck name is required"))
    ELSE Await(deckExists(c, name), LAMBDA e :
         IF ~e.ok THEN e
         ELSE IF SkipExistingDeck(e.val) THEN Return(e.c, TRUE)
         ELSE Await(Invoke(e.c, "createDeck", [deck |-> name]), LAMBDA r :
              IF r.ok THEN Return(r.c, TRUE) ELSE r))

-----------------------------------------------------------------------------
(* ModelService *)

listNoteTypes(c) == Invoke(c, "modelNames", EmptyObject)

\* mutant of NoteTypeFound: getNoteTypeInfo without the existence check
NoteTypeFound_always(modelName, existingModels) == TRUE

\* getNoteTypeInfo, line 95: existingModels.includes(modelName)
NoteTypeFound(modelName, existingModels) == modelName \in existingModels

\* getNoteTypeInfo, lines 103-113: the three queries are issued together and
\* settle in the order the plan of the request gives; each outcome is kept
\* with its action
RECURSIVE FanOut(_, _, _, _)
FanOut(c, modelName, order, settled) ==
    IF order = <<>> THEN [c |-> c, settled |-> settled]
    ELSE Await(Invoke(c, Head(order), [modelName |-> modelName]), LAMBDA r :
         FanOut(r.c, modelName, Tail(order),
                Append(settled, [action |-> Head(order), ok |-> r.ok, val |-> r.val, err |-> r.err])))

\* the value a query resolved with
Settled(settled, action) ==
    settled[CHOOSE i \in DOMAIN settled : settled[i].action = action].val

\* Promise.all rejects with the first rejection
FirstRejection(settled) ==
    settled[CHOOSE i \in DOMAIN settled :
                /\ ~settled[i].ok
                /\ \A j \in DOMAIN settled : ~settled[j].ok => i <= j].err

\* getNoteTypeInfo: the existence check, then the three queries issued together
ModelService_getNoteTypeInfo(c, modelName) ==
    IF modelName = "" THEN Throw(c, McpError("InvalidParams", "Model name is required"))
    ELSE Await(listNoteTypes(c), LAMBDA l :
         IF ~l.ok THEN l
         ELSE IF ~NoteTypeFound(modelName, l.val)
         THEN Throw(l.c, McpError("InvalidParams", "Note type not found"))
         ELSE Await(FanOut(l.c, modelName, c.plan.order, <<>>), LAMBDA all :
              IF \A i \in DOMAIN all.settled : all.settled[i].ok
              THEN Return(all.c, [modelName |-> modelName,
                                  fields |-> Settled(all.settled, "modelFieldNames"),
                                  templates |-> Settled(all.settled, "modelTemplates"),
                                  css |-> Settled(all.settled, "modelStyling").css])
              ELSE Throw(all.c, FirstRejection(all.settled))))

\* mutant of NoteTypeExists: createNoteType without the duplicate check
NoteTypeExists_never(name, existingModels) == FALSE

\* createNoteType, line 63: existingModels.includes(name)
NoteTypeExists(name, existingModels) == name \in existingModels

\* mutant of CreateModelParams: the first field is not sent
CreateModelParams_dropsFirstField(params) ==
    [modelName |-> params.name,
     inOrderFields |-> Tail(params.fields),
     css |-> IF Truthy(params, "css") THEN params.css ELSE "",
     cardTemplates |-> params.templates]

\* createNoteType, lines 70-75: the parameters of createModel
CreateModelParams(params) ==
    [modelName |-> params.name,
     inOrderFields |-> params.fields,
     css |-> IF Truthy(params, "css") THEN params.css ELSE "",
     cardTemplates |-> params.templates]

\* createNoteType; params has name, fields, templates and maybe css
ModelService_createNoteType(c, params) ==
    IF ~Truthy(params, "name")
    THEN Throw(c, McpError("InvalidParams", "Model name is required"))
    ELSE IF ~Has(params, "fields") \/ Len(params.fields) = 0
    THEN Throw(c, McpError("InvalidParams", "Fields are required"))
    ELSE IF ~Has(params, "templates") \/ Len(params.templates) = 0
    THEN Throw(c, McpError("InvalidParams", "Templates are required"))
    ELSE Await(listNoteTypes(c), LAMBDA l :
         IF ~l.ok THEN l
         ELSE IF NoteTypeExists(params.name, l.val)
         THEN Throw(l.c, McpError("InvalidParams", "Note type already exists"))
         ELSE Await(Invoke(l.c, "createModel", CreateModelParams(params)), LAMBDA r :
              IF r.ok THEN Return(r.c, TRUE) ELSE r))

-----------------------------------------------------------------------------
(* NoteService *)

InvalidNote(msg) == [ok |-> FALSE, fields |-> EmptyObject, err |-> McpError("InvalidParams", msg)]
BuiltFields(f) == [ok |-> TRUE, fields |-> f, err |-> NoError]

\* createNote, lines 45-88: the fields map of the note
NoteFields(params, fieldNames) ==
    IF Has(params, "fields") THEN BuiltFields(params.fields)
    ELSE IF params.type = "Basic"
    THEN (IF ~Truthy(params, "front") \/ ~Truthy(params, "back")
          THEN InvalidNote("Basic notes require front and back content")
          ELSE BuiltFields((fieldNames.front :> Str(params.front))
                           @@ (fieldNames.back :> Str(params.back))))
    ELSE IF params.type = "Cloze"
    THEN (IF ~Truthy(params, "text")
          THEN InvalidNote("Cloze notes require text content")
          ELSE BuiltFields((fieldNames.front :> Str(params.text))
                           @@ (fieldNames.back :>
                                 Str(IF Truthy(params, "backExtra") THEN params.backExtra ELSE ""))))
    ELSE InvalidNote("Invalid note type")

\* createNote, lines 90-95: the note sent upstream; an undefined deck is no key
NoteOf(params, modelName, fields) ==
    LET note == [modelName |-> modelName, fields |-> fields,
                 tags |-> IF Has(params, "tags") THEN params.tags ELSE <<>>]
    IN  IF Has(params, "deck") THEN ("deckName" :> params.deck) @@ note ELSE note

NoteService_createNote(c, lang, params) ==
    IF params = Null \/ ~Has(params, "type") THEN Throw(c, TypeError)
    ELSE Await(ConfigService_getModelName(params.type, lang), LAMBDA modelName :
         IF ~modelName.ok THEN Throw(c, TypeError)
         ELSE Await(NoteFields(params, getFieldNames(params.type, lang)), LAMBDA built :
              IF ~built.ok THEN Throw(c, built.err)
              ELSE Invoke(c, "addNote",
                          [note |-> NoteOf(params, modelName.val, built.fields)])))

\* batchCreateNotes, line 111: the default of the stopOnError parameter
StopOnErrorDefault == FALSE

\* an optional boolean argument is <<>> (undefined) or <<b>>
StopOnError(stopArg) == IF stopArg = <<>> THEN StopOnErrorDefault ELSE stopArg[1]

\* mutants of BatchContinues: a loop that breaks at every failure, and one that never breaks
BatchContinues_alwaysBreaks(failed, stopOnError) == ~failed
BatchContinues_neverBreaks(failed, stopOnError) == TRUE

\* batchCreateNotes, lines 124-126: whether the loop goes on after an item
BatchContinues(failed, stopOnError) == ~(failed /\ stopOnError)

\* batchCreateNotes, lines 118-123: the entry pushed for an item
BatchEntry(r) ==
    IF r.ok THEN [success |-> TRUE, data |-> r.val]
    ELSE [success |-> FALSE, error |-> r.err.msg]

RECURSIVE BatchLoop(_, _, _, _, _, _)
BatchLoop(c, lang, notes, k, results, stopOnError) ==
    IF k > Len(notes) THEN Return([c EXCEPT !.item = 0], [results |-> results])
    ELSE Await(NoteService_createNote([c EXCEPT !.item = k], lang, notes[k]), LAMBDA r :
         IF BatchContinues(~r.ok, stopOnError)
         THEN BatchLoop(r.c, lang, notes, k + 1, Append(results, BatchEntry(r)), stopOnError)
         ELSE Return([r.c EXCEPT !.item = 0], [results |-> Append(results, BatchEntry(r))]))

NoteService_batchCreateNotes(c, lang, notes, stopArg) ==
    BatchLoop(c, lang, notes, 1, <<>>, StopOnError(stopArg))

\* mutant of ValidNoteId: every number is accepted
ValidNoteId_anyNumber(id) == id.t = "number"

\* a note id argument: [t |-> "number", n |-> 5] or [t |-> "string", s |-> "5"]
ValidNoteId(id) == id.t = "number" /\ id.n > 0

searchNotes(c, query) ==
    IF query = "" THEN Throw(c, McpError("InvalidParams", "Search query is required"))
    ELSE Invoke(c, "findNotes", [query |-> query])

NoteService_getNoteInfo(c, noteId) ==
    IF ~ValidNoteId(noteId) THEN Throw(c, McpError("InvalidParams", "Valid note ID is required"))
    ELSE Await(Invoke(c, "notesInfo", [notes |-> <<noteId>>]), LAMBDA r :
         IF ~r.ok THEN r
         ELSE IF r.val = Null \/ Len(r.val) = 0
         THEN Throw(r.c, McpError("InvalidParams", "Note not found"))
         ELSE Return(r.c, r.val[1]))

\* tags.join(" ")
RECURSIVE JoinTags(_)
JoinTags(tags) ==
    IF Len(tags) = 0 THEN ""
    ELSE IF Len(tags) = 1 THEN tags[1]
    ELSE tags[1] \o " " \o JoinTags(Tail(tags))

\* mutant of ReplacesTags: the tags are never touched
ReplacesTags_never(params) == FALSE

\* updateNote, line 194: if (tags)
ReplacesTags(params) == Has(params, "tags")

\* mutant of TagCalls: the new tags are added before the old ones are cleared
TagCalls_addFirst(id, tags) ==
    <<[action |-> "addTags", params |-> [notes |-> <<id>>, tags |-> JoinTags(tags)]],
      [action |-> "clearTags", params |-> [notes |-> <<id>>]]>>

\* updateNote, lines 195-199: the two calls that replace the tags
TagCalls(id, tags) ==
    <<[action |-> "clearTags", params |-> [notes |-> <<id>>]],
      [action |-> "addTags", params |-> [notes |-> <<id>>, tags |-> JoinTags(tags)]]>>

\* awaited calls one after the other: the first rejection ends the sequence
RECURSIVE InOrder(_, _)
InOrder(c, calls) ==
    IF Len(calls) = 0 THEN Return(c, TRUE)
    ELSE Await(Invoke(c, Head(calls).action, Head(calls).params), LAMBDA r :
         IF ~r.ok THEN r ELSE InOrder(r.c, Tail(calls)))

NoteService_updateNote(c, params) ==
    IF ~Has(params, "id") \/ ~ValidNoteId(params.id)
    THEN Throw(c, McpError("InvalidParams", "Valid note ID is required"))
    ELSE IF ~Has(params, "fields") \/ DOMAIN params.fields = {}
    THEN Throw(c, McpError("InvalidParams", "Fields are required for update"))
    ELSE Await(Invoke(c, "updateNoteFields",
                      [note |-> [id |-> params.id, fields |-> params.fields]]), LAMBDA u :
         IF ~u.ok THEN u
         ELSE IF ~ReplacesTags(params) THEN Return(u.c, TRUE)
         ELSE InOrder(u.c, TagCalls(params.id, params.tags)))

NoteService_deleteNote(c, noteId) ==
    IF ~ValidNoteId(noteId) THEN Throw(c, McpError("InvalidParams", "Valid note ID is required"))
    ELSE Await(Invoke(c, "deleteNotes", [notes |-> <<noteId>>]), LAMBDA r :
         IF r.ok THEN Return(r.c, TRUE) ELSE r)

-----------------------------------------------------------------------------
(* Tool handlers: DeckTools, NoteTools, ModelTools *)

\* what a tool handler leaves: the context and the response
Done(c, resp) == [c |-> c, resp |-> resp]
Invalid(c, msg) == Done(c, Failure(McpError("InvalidParams", msg)))

\* the response of a handler that awaits one service call and formats its value
Reply(r, text) == IF r.ok THEN Done(r.c, Envelope(text)) ELSE Done(r.c, Failure(r.err))

\* JSON.stringify(value, null, 2) as the text of an envelope
Json(value) == [fmt |-> "json", value |-> value]

DeckTools_listDecks(c, args) ==
    Await(listDecks(c), LAMBDA r : Reply(r, Json(r.val)))

DeckTools_createDeck(c, args) ==
    IF args = Null \/ ~Truthy(args, "name") THEN Invalid(c, "Deck name is required")
    ELSE Await(DeckService_createDeck(c, args.name), LAMBDA r :
         Reply(r, [fmt |-> "Created deck: ", name |-> args.name]))

\* tools/noteTools.ts createNote, lines 52-69: the fields after the required-field
\* check and the mapping of the front/back shortcuts
CheckedFields(args, modelInfo) ==
    Await(IF Has(args, "fields") THEN args.fields ELSE EmptyObject, LAMBDA given :
    Await({i \in DOMAIN modelInfo.fields : modelInfo.fields[i] \notin DOMAIN given},
          LAMBDA missingFields :
    Await(IF Truthy(args, "front") /\ Len(modelInfo.fields) > 0
          THEN (modelInfo.fields[1] :> Str(args.front)) @@ given ELSE given, LAMBDA withFront :
    Await(IF Truthy(args, "back") /\ Len(modelInfo.fields) > 1
          THEN (modelInfo.fields[2] :> Str(args.back)) @@ withFront ELSE withFront,
          LAMBDA withBack :
    IF missingFields # {} THEN InvalidNote("Missing required fields")
    ELSE IF DOMAIN withBack = {} THEN InvalidNote("No fields provided")
    ELSE BuiltFields(withBack)))))

CreatedNote(r) == Reply(r, [fmt |-> "Created note with ID: ", id |-> r.val])

\* tools/noteTools.ts: NoteTools.createNote of the ToolFactory wiring
NoteTools_createNote(c, lang, args) ==
    IF args = Null THEN Invalid(c, "Arguments are required")
    ELSE IF ~Truthy(args, "type") THEN Invalid(c, "Note type is required")
    ELSE IF ~Truthy(args, "deck") THEN Invalid(c, "Deck name is required")
    ELSE Await(ModelService_getNoteTypeInfo(c, args.type), LAMBDA modelInfo :
         IF ~modelInfo.ok THEN Done(modelInfo.c, Failure(modelInfo.err))
         ELSE Await(CheckedFields(args, modelInfo.val), LAMBDA checked :
              IF ~checked.ok THEN Done(modelInfo.c, Failure(checked.err))
              ELSE Await(NoteService_createNote(
                             modelInfo.c, lang, ("fields" :> checked.fields) @@ args),
                         LAMBDA r : CreatedNote(r))))

\* NoteTools.createNote of the AnkiMcpServer wiring (no model service)
LegacyNoteTools_createNote(c, lang, args) ==
    IF args = Null THEN Invalid(c, "Arguments are required")
    ELSE IF ~Truthy(args, "type") THEN Invalid(c, "Note type is required")
    ELSE IF ~Truthy(args, "deck") THEN Invalid(c, "Deck name is required")
    ELSE Await(NoteService_createNote(c, lang, args), LAMBDA r : CreatedNote(r))

\* NoteTools.batchCreateNotes (the same in both wirings); notes is an array or absent
NoteTools_batchCreateNotes(c, lang, args) ==
    IF args = Null \/ ~Has(args, "notes") THEN Invalid(c, "Notes array is required")
    ELSE Await(NoteService_batchCreateNotes(
                   c, lang, args.notes,
                   IF Has(args, "stopOnError") THEN <<args.stopOnError>> ELSE <<>>),
               LAMBDA r : Reply(r, Json(r.val)))

NoteTools_searchNotes(c, args) ==
    IF args = Null \/ ~Truthy(args, "query") THEN Invalid(c, "Search query is required")
    ELSE Await(searchNotes(c, args.query), LAMBDA r : Reply(r, Json(r.val)))

NoteTools_getNoteInfo(c, args) ==
    IF args = Null \/ ~Has(args, "noteId") \/ args.noteId.t # "number"
    THEN Invalid(c, "Note ID is required")
    ELSE Await(NoteService_getNoteInfo(c, args.noteId), LAMBDA r : Reply(r, Json(r.val)))

NoteTools_updateNote(c, args) ==
    IF args = Null \/ ~Has(args, "id") \/ args.id.t # "number"
    THEN Invalid(c, "Note ID is required")
    ELSE IF ~Has(args, "fields") \/ DOMAIN args.fields = {}
    THEN Invalid(c, "Fields are required for update")
    ELSE Await(NoteService_updateNote(c, args), LAMBDA r :
         Reply(r, [fmt |-> "Updated note: ", id |-> args.id]))

NoteTools_deleteNote(c, args) ==
    IF args = Null \/ ~Has(args, "noteId") \/ args.noteId.t # "number"
    THEN Invalid(c, "Note ID is required")
    ELSE Await(NoteService_deleteNote(c, args.noteId), LAMBDA r :
         Reply(r, [fmt |-> "Deleted note: ", id |-> args.noteId]))

ModelTools_listNoteTypes(c, args) ==
    Await(listNoteTypes(c), LAMBDA r : Reply(r, Json(r.val)))

ModelTools_createNoteType(c, args) ==
    IF args = Null THEN Invalid(c, "Arguments are required")
    ELSE IF ~Truthy(args, "name") THEN Invalid(c, "Model name is required")
    ELSE IF ~Has(args, "fields") \/ Len(args.fields) = 0 THEN Invalid(c, "Fields array is required")
    ELSE IF ~Has(args, "templates") \/ Len(args.templates) = 0
    THEN Invalid(c, "Templates array is required")
    ELSE Await(ModelService_createNoteType(c, args), LAMBDA r :
         Reply(r, [fmt |-> "Created note type: ", name |-> args.name]))

ModelTools_getNoteTypeInfo(c, args) ==
    IF args = Null \/ ~Truthy(args, "modelName") THEN Invalid(c, "Model name is required")
    ELSE Await(ModelService_getNoteTypeInfo(c, args.modelName), LAMBDA r : Reply(r, Json(r.val)))

-----------------------------------------------------------------------------
(* ToolFactory: the synthesized per-type tools *)

\* mutant of ToolsAfter: a failed fetch discards the tools gathered so far
ToolsAfter_failureDiscards(tools, modelName, modelInfo) ==
    IF modelInfo.ok THEN tools \cup {TypeToolName(modelName)} ELSE {}

\* createTypeSpecificTools, lines 65-106: the try block pushes the tool of the
\* type, the catch block logs the failure and goes on
ToolsAfter(tools, modelName, modelInfo) ==
    IF modelInfo.ok THEN tools \cup {TypeToolName(modelName)} ELSE tools

\* createTypeSpecificTools: one tool per note type whose descriptor is fetched;
\* a type whose fetch fails is skipped
RECURSIVE createTypeSpecificTools(_, _, _)
createTypeSpecificTools(c, modelNames, tools) ==
    IF modelNames = {} THEN Return(c, tools)
    ELSE Await(CHOOSE m \in modelNames : TRUE, LAMBDA modelName :
         Await(ModelService_getNoteTypeInfo(c, modelName), LAMBDA modelInfo :
         createTypeSpecificTools(
             modelInfo.c, modelNames \ {modelName}, ToolsAfter(tools, modelName, modelInfo))))

\* handleTypeSpecificNoteTool, lines 125-129: the declared fields found in the arguments
ExtractFields(args, modelInfo) ==
    LET present == {modelInfo.fields[i] : i \in DOMAIN modelInfo.fields} \cap DOMAIN args
    IN  [f \in present |-> Str(args[f])]


handleTypeSpecificNoteTool(c, lang, modelName, args) ==
    IF args = Null \/ ~Truthy(args, "deck") THEN Done(c, Failure(PlainError("Deck name is required")))
    ELSE Await(ModelService_getNoteTypeInfo(c, modelName), LAMBDA modelInfo :
         IF ~modelInfo.ok THEN Done(modelInfo.c, Failure(modelInfo.err))
         ELSE Await(ExtractFields(args, modelInfo.val), LAMBDA fields :
              IF modelInfo.val.fields[1] \notin DOMAIN fields
                 \/ ~TruthyValue(fields[modelInfo.val.fields[1]])
              THEN Done(modelInfo.c, Failure(PlainError("field is required")))
              ELSE Await(NoteService_createNote(
                             modelInfo.c, lang,
                             IF Has(args, "tags")
                             THEN [type |-> modelName, deck |-> args.deck, fields |-> fields,
                                   tags |-> args.tags]
                             ELSE [type |-> modelName, deck |-> args.deck, fields |-> fields]),
                         LAMBDA r :
                   Reply(r, [fmt |-> "Created note (ID: )", modelName |-> modelName,
                             id |-> r.val]))))

-----------------------------------------------------------------------------
(* The dispatchers: ToolRouter (with ConnectionManager) and AnkiMcpServer *)

\* mutant of ConnectionManager_checkConnection: a failed probe is not raised
ConnectionManager_checkConnection_swallowed(c) ==
    Await(AnkiConnectService_checkConnection(c), LAMBDA r : Return(r.c, TRUE))

ConnectionManager_checkConnection(c) ==
    Await(AnkiConnectService_checkConnection(c), LAMBDA r :
    IF r.ok THEN r ELSE Throw(r.c, McpError("InternalError", ConnectionMessage)))

\* AnkiMcpServer.checkConnection: the probe, then language detection while the
\* cached language is the default
AnkiMcpServer_checkConnection(c, lang) ==
    Await(AnkiConnectService_checkConnection(c), LAMBDA r :
    IF ~r.ok
    THEN [c |-> r.c, ok |-> FALSE, language |-> lang]
    ELSE IF lang = "en"
    THEN Await(detectLanguage(r.c), LAMBDA d : [c |-> d.c, ok |-> TRUE, language |-> d.language])
    ELSE [c |-> r.c, ok |-> TRUE, language |-> lang])

StaticTools ==
    {"list_decks", "create_deck", "create_note", "batch_create_notes", "search_notes",
     "get_note_info", "update_note", "delete_note", "list_note_types", "create_note_type",
     "get_note_type_info"}

\* what a dispatcher leaves: the handler's outcome, the handler it chose, the language
Routed(route, done, lang) == [c |-> done.c, resp |-> done.resp, route |-> route, language |-> lang]

UnknownTool(c) == Done(c, Failure(McpError("MethodNotFound", "Unknown tool")))

\* ToolRouter.ts lines 308-368: the call-tool handler
ToolRouter_callTool(c0, lang, name, args) ==
    Await(ConnectionManager_checkConnection(c0), LAMBDA check :
    Await(check.c, LAMBDA c :
    IF ~check.ok THEN Routed("none", Done(c, Failure(check.err)), lang)
    ELSE Await(TypeToolMatch(name), LAMBDA typeToolMatch :
         CASE name = "list_decks" -> Routed("DeckTools.listDecks", DeckTools_listDecks(c, args), lang)
          [] name = "create_deck" -> Routed("DeckTools.createDeck", DeckTools_createDeck(c, args), lang)
          [] name = "create_note" -> Routed("NoteTools.createNote", NoteTools_createNote(c, lang, args), lang)
          [] name = "batch_create_notes" ->
                Routed("NoteTools.batchCreateNotes", NoteTools_batchCreateNotes(c, lang, args), lang)
          [] name = "search_notes" -> Routed("NoteTools.searchNotes", NoteTools_searchNotes(c, args), lang)
          [] name = "get_note_info" -> Routed("NoteTools.getNoteInfo", NoteTools_getNoteInfo(c, args), lang)
          [] name = "update_note" -> Routed("NoteTools.updateNote", NoteTools_updateNote(c, args), lang)
          [] name = "delete_note" -> Routed("NoteTools.deleteNote", NoteTools_deleteNote(c, args), lang)
          [] name = "list_note_types" ->
                Routed("ModelTools.listNoteTypes", ModelTools_listNoteTypes(c, args), lang)
          [] name = "create_note_type" ->
                Routed("ModelTools.createNoteType", ModelTools_createNoteType(c, args), lang)
          [] name = "get_note_type_info" ->
                Routed("ModelTools.getNoteTypeInfo", ModelTools_getNoteTypeInfo(c, args), lang)
          [] OTHER ->
                IF typeToolMatch.matched
                THEN Routed("ToolFactory.handleTypeSpecificNoteTool",
                            handleTypeSpecificNoteTool(
                                c, lang, ReplaceUnderscores(typeToolMatch.group), args),
                            lang)
                ELSE Routed("none", UnknownTool(c), lang))))

\* AnkiMcpServer.ts lines 341-393: the call-tool handler
AnkiMcpServer_callTool(c0, lang0, name, args) ==
    Await(AnkiMcpServer_checkConnection(c0, lang0), LAMBDA check :
    Await(check.c, LAMBDA c :
    Await(check.language, LAMBDA lang :
    IF ~check.ok
    THEN Routed("none", Done(c, Failure(McpError("InternalError", ConnectionMessage))), lang)
    ELSE CASE name = "list_decks" -> Routed("DeckTools.listDecks", DeckTools_listDecks(c, args), lang)
          [] name = "create_deck" -> Routed("DeckTools.createDeck", DeckTools_createDeck(c, args), lang)
          [] name = "create_note" ->
                Routed("NoteTools.createNote", LegacyNoteTools_createNote(c, lang, args), lang)
          [] name = "batch_create_notes" ->
                Routed("NoteTools.batchCreateNotes", NoteTools_batchCreateNotes(c, lang, args), lang)
          [] name = "search_notes" -> Routed("NoteTools.searchNotes", NoteTools_searchNotes(c, args), lang)
          [] name = "get_note_info" -> Routed("NoteTools.getNoteInfo", NoteTools_getNoteInfo(c, args), lang)
          [] name = "update_note" -> Routed("NoteTools.updateNote", NoteTools_updateNote(c, args), lang)
          [] name = "delete_note" -> Routed("NoteTools.deleteNote", NoteTools_deleteNote(c, args), lang)
          [] name = "list_note_types" ->
                Routed("ModelTools.listNoteTypes", ModelTools_listNoteTypes(c, args), lang)
          [] name = "create_note_type" ->
                Routed("ModelTools.createNoteType", ModelTools_createNoteType(c, args), lang)
          [] name = "get_note_type_info" ->
                Routed("ModelTools.getNoteTypeInfo", ModelTools_getNoteTypeInfo(c, args), lang)
          [] OTHER -> Routed("none", UnknownTool(c), lang))))

-----------------------------------------------------------------------------
(* The inputs of the model: upstream collections, arguments and upstream plans *)

DeckNames == {"Default", "New Deck"}

OneCard == ("Card 1" :> [Front |-> "{{Front}}", Back |-> "{{Back}}"])
Model(fields) == [fields |-> fields, templates |-> OneCard, css |-> ""]

\* an English collection, one with a note type whose name has an underscore,
\* and a Chinese collection
EnModels ==
    ("Basic" :> Model(<<"Front", "Back">>)) @@ ("Cloze" :> Model(<<"Text", "Back Extra">>))
    @@ ("My Type" :> Model(<<"Question", "Answer">>))
UnderscoreModels ==
    ("Basic" :> Model(<<"Front", "Back">>)) @@ ("My_Type" :> Model(<<"Question", "Answer">>))
ZhModels ==
    ("ZhBasic" :> Model(<<"ZhFront", "ZhBack">>)) @@ ("ZhCloze" :> Model(<<"ZhText", "ZhBackExtra">>))

\* the upstream answers of one request
NoWire == [action |-> "", attempts |-> <<>>]
\* the order of the call sites of the three queries in getNoteTypeInfo
CallOrder == <<"modelFieldNames", "modelTemplates", "modelStyling">>

Plan(probe, bad, badAdd) ==
    [probe |-> probe, bad |-> bad, badAdd |-> badAdd, badModels |-> {}, wire |-> NoWire,
     order |-> CallOrder]
AllFine == Plan(TRUE, {}, {})
Unreachable == Plan(FALSE, {}, {})
Failing(action) == Plan(TRUE, {action}, {})
FailingAdd(n) == Plan(TRUE, {}, {n})

\* the queries about these note types fail
FailingModels(names) == [AllFine EXCEPT !.badModels = names]

\* the orders in which the three queries of getNoteTypeInfo may settle
SettleOrders ==
    {<<a, b, d>> : a \in ModelQueries, b \in ModelQueries, d \in ModelQueries} \
        {o \in {<<a, b, d>> : a \in ModelQueries, b \in ModelQueries, d \in ModelQueries} :
            Cardinality({o[1], o[2], o[3]}) < 3}

\* plans of get_note_type_info: which of the queries fail, settling in which order
FanOutPlans ==
    {[Plan(TRUE, bad, {}) EXCEPT !.order = o] :
        bad \in {{}} \cup {{q} : q \in ModelQueries}, o \in SettleOrders}

\* the transport's answers to the attempts of one action, scripted
Wired(action, attempts) == [AllFine EXCEPT !.wire = [action |-> action, attempts |-> attempts]]

ExchangeKinds ==
    {"ok", "error", "status500", "status500error", "refused", "timeout", "reset",
     "unreachable", "none"}

\* a first attempt alone, or a timeout or reset followed by the retry
WireScripts ==
    {<<k>> : k \in ExchangeKinds \ {"timeout", "reset"}}
        \cup {<<"timeout", r>> : r \in ExchangeKinds}
        \cup {<<"reset", r>> : r \in {"ok", "error"}}

\* arguments of create_note
Note(type, fields) == [type |-> type, deck |-> "Default", fields |-> fields]
QA(front, back) == ("Front" :> front) @@ ("Back" :> back)

CreateNoteArgs ==
    { Null,
      [deck |-> "Default", front |-> "Q", back |-> "A"],
      [type |-> "Basic", front |-> "Q", back |-> "A"],
      [type |-> "Basic", deck |-> "Default", front |-> "Q", back |-> "A"],
      [type |-> "Basic", deck |-> "Default", front |-> "Q", back |-> ""],
      [type |-> "Cloze", deck |-> "Default", text |-> "T"],
      [type |-> "Basic", deck |-> "New Deck", fields |-> QA(Str("Q"), Str("A")), tags |-> <<"t1">>],
      Note("Basic", QA(Str("Q"), Str("A"))),
      Note("Basic", QA(Str(""), Str("A"))),
      Note("Basic", QA(Str("Q"), Num("123"))),
      Note("Basic", "Front" :> Str("Q")),
      Note("Basic", ("ZhFront" :> Str("Q")) @@ ("ZhBack" :> Str("A"))),
      Note("My Type", ("Question" :> Str("Q")) @@ ("Answer" :> Str("A"))) }

\* items of a batch: a note that is created and one of an unknown type
BatchItems ==
    { Note("Basic", QA(Str("Q"), Str("A"))),
      Note("InvalidType", "F" :> Str("Q1")) }

\* a note for a deck that may not exist, its front holding an unescaped '<'
NewDeckNote == [type |-> "Basic", deck |-> "New Deck", fields |-> QA(Str("a<b"), Str("A"))]

RECURSIVE SeqsUpTo(_, _)
SeqsUpTo(S, n) ==
    IF n = 0 THEN {<<>>}
    ELSE LET shorter == SeqsUpTo(S, n - 1)
         IN  shorter \cup {Append(q, x) : q \in {r \in shorter : Len(r) = n - 1}, x \in S}

BatchArgs ==
    {Null, [stopOnError |-> TRUE]}
    \cup {[notes |-> ns] : ns \in SeqsUpTo(BatchItems, MaxBatch)}
    \cup {[notes |-> ns, stopOnError |-> b] : ns \in SeqsUpTo(BatchItems, MaxBatch), b \in BOOLEAN}
    \cup {[notes |-> <<NewDeckNote>>], [notes |-> <<Note("Basic", QA(Str("Q"), Str("A"))), NewDeckNote>>]}

BatchPlans == {AllFine, Unreachable} \cup {FailingAdd(n) : n \in 1..MaxBatch}

\* the names and arguments of the synthesized tools that are called
TypeNames == {"Basic", "My Type", "My_Type"}

TypedNoteArgs ==
    { Null,
      [Front |-> "Q", Back |-> "A"],
      [deck |-> "Default", Front |-> "Q", Back |-> "A", tags |-> <<"t1">>],
      [deck |-> "Default", Front |-> ""],
      [deck |-> "Default", Question |-> "Q", Extra |-> "X"] }

UnknownNames == {"unknown_tool", "create__note", "create_note_types", "create_deck_notes"}

NoteIds == {[t |-> "number", n |-> 7], [t |-> "number", n |-> 0], [t |-> "string", s |-> "7"]}

UpdateArgs ==
    { Null,
      [id |-> [t |-> "number", n |-> 7], fields |-> EmptyObject],
      [id |-> [t |-> "number", n |-> 7], fields |-> ("Front" :> Str("Q2"))],
      [id |-> [t |-> "number", n |-> 0], fields |-> ("Front" :> Str("Q2"))],
      [id |-> [t |-> "number", n |-> 7], fields |-> ("Front" :> Str("Q2")), tags |-> <<"t2", "t4">>] }

Templates == <<[name |-> "Card 1", front |-> "{{Question}}", back |-> "{{Answer}}"]>>

CreateNoteTypeArgs ==
    { Null,
      [name |-> "", fields |-> <<"Question">>, templates |-> Templates],
      [name |-> "New Type", fields |-> <<>>, templates |-> Templates],
      [name |-> "New Type", fields |-> <<"Question", "Answer">>, templates |-> <<>>],
      [name |-> "New Type", fields |-> <<"Question", "Answer">>, templates |-> Templates],
      [name |-> "Basic", fields |-> <<"Front", "Back">>, templates |-> Templates, css |-> ".card {}"] }

-----------------------------------------------------------------------------
(* The state machine *)

Ctx(plan) ==
    [decks |-> decks, models |-> models, notes |-> noteStore, plan |-> plan, log |-> <<>>, item |-> 0]

\* no request is being served concurrently
NoTasks == <<>>

Idle ==
    [name |-> "", args |-> Null, plan |-> AllFine, resp |-> Failure(NoError), calls |-> <<>>,
     route |-> "none", before |-> [decks |-> {}, models |-> EmptyObject, language |-> DefaultLanguage,
                                notes |-> NoNotes]]

NoListing == [listed |-> FALSE, tools |-> {}]

NoPrev == [name |-> "", deck |-> "", ok |-> FALSE, fine |-> FALSE, created |-> 0, type |-> Null]

Init ==
    /\ wiring \in {"server", "router"}
    /\ language = DefaultLanguage
    /\ decks = {"Default"}
    /\ models \in {EnModels, UnderscoreModels, ZhModels}
    /\ handlers = IF wiring = "server" THEN "registered" ELSE "pending"
    /\ typeTools = {}
    /\ last = Idle
    /\ prev = NoPrev
    /\ setup = <<>>
    /\ listing = NoListing
    /\ noteStore = NoNotes
    /\ tasks = NoTasks

\* ToolRouter.setupToolHandlers, lines 37-47 and 308: the note types are listed,
\* the tools synthesized and then the handlers registered
Startup(plan) ==
    /\ wiring = "router"
    /\ handlers = "pending"
    /\ \E l \in {listNoteTypes(Ctx(plan))} :
           IF l.ok
           THEN \E made \in {createTypeSpecificTools(l.c, l.val, {})} :
                    /\ handlers' = "registered"
                    /\ typeTools' = made.val
                    /\ setup' = made.c.log
           ELSE /\ handlers' = "failed"
                /\ typeTools' = typeTools
                /\ setup' = l.c.log
    /\ UNCHANGED <<wiring, language, decks, models, last, prev, listing, noteStore, tasks>>

\* the list-tools handler: ToolRouter.ts lines 43-306 lists the synthesized
\* tools captured at setup and the static ones, AnkiMcpServer.ts lines 80-340
\* the static ones
ListToolsHandler == IF wiring = "router" THEN typeTools \cup StaticTools ELSE StaticTools

\* a tools/list request; it makes no upstream call
ListTools ==
    /\ handlers = "registered"
    /\ last = Idle
    /\ ~listing.listed
    /\ listing' = [listed |-> TRUE, tools |-> ListToolsHandler]
    /\ UNCHANGED <<wiring, language, decks, models, handlers, typeTools, last, prev, setup,
                   noteStore, tasks>>

\* the summary kept of a delivered response: the create_deck calls by deck name
Summary(call) ==
    IF call.name = "create_deck" /\ Has(call.args, "name")
    THEN [name |-> call.name, deck |-> call.args.name, ok |-> call.resp.kind = "ok",
          fine |-> call.plan = AllFine, created |-> CountAction(call.calls, "createDeck"),
          type |-> Null]
    ELSE IF call.name = "create_note_type" /\ call.resp.kind = "ok"
    THEN [NoPrev EXCEPT !.name = call.name, !.ok = TRUE,
                        !.type = [name |-> call.args.name, fields |-> call.args.fields,
                                  templates |-> call.args.templates]]
    ELSE NoPrev

\* one tool call, handled by the call-tool handler of the wiring; the client
\* has one request outstanding at a time
CallTool(name, args, plan) ==
    /\ handlers = "registered"
    /\ last = Idle
    /\ ~listing.listed
    /\ \E out \in {IF wiring = "router"
                   THEN ToolRouter_callTool(Ctx(plan), language, name, args)
                   ELSE AnkiMcpServer_callTool(Ctx(plan), language, name, args)} :
           /\ decks' = out.c.decks
           /\ models' = out.c.models
           /\ noteStore' = out.c.notes
           /\ language' = out.language
           /\ last' = [name |-> name, args |-> args, plan |-> plan, resp |-> out.resp,
                       calls |-> out.c.log, route |-> out.route,
                       before |-> [decks |-> decks, models |-> models, language |-> language,
                                   notes |-> noteStore]]
    /\ UNCHANGED <<wiring, handlers, typeTools, prev, setup, listing, tasks>>

\* the client takes the response
Deliver ==
    /\ last # Idle \/ listing.listed
    /\ prev' = IF last # Idle THEN Summary(last) ELSE prev
    /\ last' = Idle
    /\ listing' = NoListing
    /\ UNCHANGED <<wiring, language, decks, models, handlers, typeTools, setup, noteStore, tasks>>

ListDecks ==
    \E plan \in {AllFine, Unreachable, Failing("deckNames")}
                    \cup {Wired("deckNames", w) : w \in WireScripts} :
        CallTool("list_decks", EmptyObject, plan)

CreateDeck ==
    \E args \in {Null, [name |-> ""]} \cup {[name |-> d] : d \in DeckNames},
       plan \in {AllFine, Unreachable, Failing("deckNames"), Failing("createDeck")} :
        CallTool("create_deck", args, plan)

CreateNote ==
    \E args \in CreateNoteArgs,
       plan \in {AllFine, Unreachable, Failing("modelStyling"), FailingAdd(1)} :
        CallTool("create_note", args, plan)

BatchCreateNotes ==
    \E args \in BatchArgs, plan \in BatchPlans : CallTool("batch_create_notes", args, plan)

CreateTypedNote ==
    \E type \in TypeNames, args \in TypedNoteArgs, plan \in {AllFine, Unreachable} :
        CallTool(TypeToolName(type), args, plan)

CallUnknownTool ==
    \E name \in UnknownNames, args \in {Null, EmptyObject}, plan \in {AllFine, Unreachable} :
        CallTool(name, args, plan)

SearchNotes ==
    \E args \in {Null, [query |-> ""], [query |-> "deck:Default"]}, plan \in {AllFine, Unreachable} :
        CallTool("search_notes", args, plan)

GetNoteInfo ==
    \E args \in {Null} \cup {[noteId |-> id] : id \in NoteIds}, plan \in {AllFine, Unreachable} :
        CallTool("get_note_info", args, plan)

UpdateNote ==
    \E args \in UpdateArgs,
       plan \in {AllFine, Unreachable, Failing("updateNoteFields"), Failing("clearTags"),
                 Failing("addTags")} :
        CallTool("update_note", args, plan)

DeleteNote ==
    \E args \in {Null} \cup {[noteId |-> id] : id \in NoteIds}, plan \in {AllFine, Unreachable} :
        CallTool("delete_note", args, plan)

ListNoteTypes ==
    \E plan \in {AllFine, Unreachable, Failing("modelNames")} :
        CallTool("list_note_types", EmptyObject, plan)

CreateNoteType ==
    \E args \in CreateNoteTypeArgs, plan \in {AllFine, Unreachable, Failing("createModel")} :
        CallTool("create_note_type", args, plan)

GetNoteTypeInfo ==
    \/ \E args \in {Null, [modelName |-> ""], [modelName |-> "Nope"]},
          plan \in {AllFine, Unreachable} :
           CallTool("get_note_type_info", args, plan)
    \/ \E args \in {[modelName |-> "Basic"], [modelName |-> "New Type"]},
          plan \in {Unreachable, Failing("modelNames")} \cup FanOutPlans :
           CallTool("get_note_type_info", args, plan)

\* the user deletes a deck in Anki between two tool calls
UpstreamDeleteDeck ==
    /\ last = Idle
    /\ \E d \in decks \ {"Default"} : decks' = decks \ {d}
    /\ prev' = NoPrev
    /\ UNCHANGED <<wiring, language, models, handlers, typeTools, last, setup, listing,
                   noteStore, tasks>>

Next ==
    \/ \E plan \in {AllFine, Unreachable, Failing("modelFieldNames")} : Startup(plan)
    \/ ListDecks
    \/ CreateDeck
    \/ CreateNote
    \/ BatchCreateNotes
    \/ CreateTypedNote
    \/ CallUnknownTool
    \/ SearchNotes
    \/ GetNoteInfo
    \/ UpdateNote
    \/ DeleteNote
    \/ ListNoteTypes
    \/ CreateNoteType
    \/ GetNoteTypeInfo
    \/ ListTools
    \/ Deliver
    \/ UpstreamDeleteDeck

Spec == Init /\ [][Next]_vars

\* the note type names of the upstream collections
AllTypeNames == DOMAIN EnModels \cup DOMAIN UnderscoreModels \cup DOMAIN ZhModels

\* what the upstream may answer while the handlers are set up
SetupPlans ==
    {AllFine, Unreachable, Failing("modelNames")}
        \cup {Failing(q) : q \in ModelQueries}
        \cup {FailingModels(names) : names \in (SUBSET AllTypeNames) \ {{}}}

\* the server from its start to its tool listing, under every setup plan
SetupNext ==
    \/ \E plan \in SetupPlans : Startup(plan)
    \/ ListTools
    \/ CreateTypedNote
    \/ CallUnknownTool
    \/ Deliver

SetupSpec == Init /\ [][SetupNext]_vars

\* the same server with its setup scheduled: setupToolHandlers is started by
\* the constructor (ToolRouter.ts line 31), so its step is not postponed forever
FairSetupSpec == SetupSpec /\ WF_vars(\E plan \in SetupPlans : Startup(plan))

\* collections for language detection: with both canonical Basic names, with
\* either, and with neither
DetectCollections ==
    {EnModels, ZhModels, EnModels @@ ZhModels, "My Type" :> Model(<<"Question", "Answer">>)}

DetectInit ==
    /\ wiring = "server"
    /\ language = DefaultLanguage
    /\ decks = {"Default"}
    /\ models \in DetectCollections
    /\ handlers = "registered"
    /\ typeTools = {}
    /\ last = Idle
    /\ prev = NoPrev
    /\ setup = <<>>
    /\ listing = NoListing
    /\ noteStore = NoNotes
    /\ tasks = NoTasks

\* the server of AnkiMcpServer.ts, whose preflight detects the language
DetectNext ==
    \/ ListDecks
    \/ ListNoteTypes
    \/ CreateNoteType
    \/ Deliver

DetectSpec == DetectInit /\ [][DetectNext]_vars

\* a collection with one note
OneNote == 7 :> [fields |-> ("Front" :> Str("Q") @@ "Back" :> Str("A")), tags |-> {"t1", "t3"}]

NoteInit ==
    /\ wiring \in {"server", "router"}
    /\ language = DefaultLanguage
    /\ decks = {"Default"}
    /\ models = EnModels
    /\ handlers = "registered"
    /\ typeTools = {}
    /\ last = Idle
    /\ prev = NoPrev
    /\ setup = <<>>
    /\ listing = NoListing
    /\ noteStore = OneNote
    /\ tasks = NoTasks

\* the note operations on a collection that holds the note they name
NoteNext ==
    \/ SearchNotes
    \/ GetNoteInfo
    \/ UpdateNote
    \/ DeleteNote
    \/ Deliver

NoteSpec == NoteInit /\ [][NoteNext]_vars

-----------------------------------------------------------------------------
(* Requests served at once.  A handler runs until it awaits an upstream call  *)
(* and resumes when the call is answered; between the two, other requests run. *)

TaskIds == {"A", "B"}

\* the deck of the concurrent create_deck calls
ConcDeck == "New Deck"

\* the legacy shortcut note of the concurrent note creations
ShortcutNote == [type |-> "Basic", deck |-> "Default", front |-> "Q", back |-> "A"]

\* the notes of a concurrent batch_create_notes call
ConcBatch == <<ShortcutNote, ShortcutNote>>

\* the upstream calls that are answered with a failure now and then
Unreliable == {"version", "modelNames", "addNote"}

IdleTask ==
    [tool |-> "none", n |-> 0, stop |-> <<>>, lang0 |-> DefaultLanguage, hadDeck |-> FALSE,
     waiting |-> {}, results |-> <<>>, log |-> <<>>, pc |-> "idle"]

\* an upstream call of a task; item is the batch index it serves, note the note it carries
Call(action, item, note) == [action |-> action, item |-> item, note |-> note]

\* invoke is called: the request is sent and the call is outstanding
RECURSIVE Issue(_, _)
Issue(task, calls) ==
    IF Len(calls) = 0 THEN task
    ELSE Issue([task EXCEPT !.waiting = @ \cup {Head(calls)},
                            !.log = Append(@, [e |-> "issue", call |-> Head(calls), ok |-> TRUE])],
               Tail(calls))

\* mutant of ModelNameLocale: the model name of the locale the request started with
ModelNameLocale_atStart(atStart, atCreate) == atStart

\* createNote, line 42: getModelName reads this.language when createNote runs,
\* in the same synchronous stretch as getFieldNames on line 43
ModelNameLocale(atStart, atCreate) == atCreate

\* createNote, lines 40-97, for a legacy shortcut note: the note sent upstream
ShortcutNoteSent(task, params, lang) ==
    NoteOf(params,
           ConfigService_getModelName(params.type, ModelNameLocale(task.lang0, lang)).val,
           NoteFields(params, getFieldNames(params.type, lang)).fields)

\* mutant of IssuedAfter: every note of the batch is sent at the start
IssuedAfter_allAtOnce(recorded, n) == IF recorded = 0 THEN 1..n ELSE {}

\* batchCreateNotes, lines 115-117: the loop awaits createNote of one note
\* before it turns to the next; the items sent once `recorded` outcomes are pushed
IssuedAfter(recorded, n) == IF recorded < n THEN {recorded + 1} ELSE {}

\* the addNote calls of the items, in index order
RECURSIVE AddNoteCalls(_, _, _)
AddNoteCalls(task, items, lang) ==
    IF items = {} THEN <<>>
    ELSE LET k == CHOOSE i \in items : \A j \in items : i <= j
         IN  <<Call("addNote", k, ShortcutNoteSent(task, ConcBatch[k], lang))>>
                \o AddNoteCalls(task, items \ {k}, lang)

\* the state a step of a task leaves: the task, the cached language, the decks
Left(task, lang, dks) == [task |-> task, language |-> lang, decks |-> dks]

\* the handler returned or threw: the response is ready
Finished(task, lang, dks) == Left([task EXCEPT !.pc = "done"], lang, dks)

\* the handler of the tool runs up to its first await
Handler(task, lang, dks) ==
    CASE task.tool = "create_deck" -> Left(Issue(task, <<Call("deckNames", 0, Null)>>), lang, dks)
      [] task.tool = "create_note" ->
            Left(Issue(task, <<Call("addNote", 0, ShortcutNoteSent(task, ShortcutNote, lang))>>), lang, dks)
      [] task.tool = "batch_create_notes" ->
            Left(Issue(task, AddNoteCalls(task, IssuedAfter(0, task.n), lang)), lang, dks)

\* batchCreateNotes, lines 115-128: the outcome of a note is pushed and the loop goes on
AfterAddNote(task, ok, lang, dks) ==
    LET pushed == [task EXCEPT !.results = Append(@, ok)]
        next   == IF BatchContinues(~ok, StopOnError(task.stop))
                  THEN IssuedAfter(Len(pushed.results), task.n) ELSE {}
        sent   == Issue(pushed, AddNoteCalls(pushed, next, lang))
    IN  IF sent.waiting = {} THEN Finished(sent, lang, dks) ELSE Left(sent, lang, dks)

\* The awaited call is answered and the task runs until its next await:
\* checkConnection of the wiring, then the handler of the tool.
Resumed(task, call, ok, lang, dks, mdls) ==
    LET got == [task EXCEPT !.waiting = @ \ {call},
                            !.log = Append(@, [e |-> "done", call |-> call, ok |-> ok])]
    IN  CASE call.action = "version" ->
                IF ~ok THEN Finished(got, lang, dks)
                ELSE IF wiring = "server" /\ lang = "en"
                THEN Left(Issue(got, <<Call("modelNames", 0, Null)>>), lang, dks)
                ELSE Handler(got, lang, dks)
          [] call.action = "modelNames" ->
                Handler(got, DetectedLanguage(ok, DOMAIN mdls), dks)
          [] call.action = "deckNames" ->
                IF ~ok \/ SkipExistingDeck(ConcDeck \in dks) THEN Finished(got, lang, dks)
                ELSE Left(Issue(got, <<Call("createDeck", 0, Null)>>), lang, dks)
          [] call.action = "createDeck" ->
                Finished(got, lang, IF ok THEN dks \cup {ConcDeck} ELSE dks)
          [] call.action = "addNote" ->
                IF got.tool = "create_note" THEN Finished(got, lang, dks)
                ELSE AfterAddNote(got, ok, lang, dks)

\* the tools of the concurrent requests; the legacy shortcuts are served by the
\* NoteTools of AnkiMcpServer.ts only
ConcTools == IF wiring = "server" THEN {"create_deck", "create_note", "batch_create_notes"}
             ELSE {"create_deck", "batch_create_notes"}

\* a request arrives: the call-tool handler starts with the version probe
ConcStart(t) ==
    /\ tasks[t].pc = "idle"
    /\ \E tool \in ConcTools, stop \in {<<>>, <<TRUE>>}, n \in {1, Len(ConcBatch)} :
           /\ IF tool = "batch_create_notes" THEN n = Len(ConcBatch) ELSE n = 1 /\ stop = <<>>
           /\ tasks' = [tasks EXCEPT ![t] =
                  Issue([IdleTask EXCEPT !.tool = tool, !.n = n, !.stop = stop,
                                         !.lang0 = language, !.hadDeck = ConcDeck \in decks,
                                         !.pc = "running"],
                        <<Call("version", 0, Null)>>)]
    /\ UNCHANGED <<wiring, language, decks, models, handlers, typeTools, last, prev, setup,
                   listing, noteStore>>

\* an outstanding call of a task is answered, with a result or with a failure
ConcComplete(t) ==
    /\ \E call \in tasks[t].waiting, ok \in BOOLEAN :
           /\ ~ok => call.action \in Unreliable
           /\ \E left \in {Resumed(tasks[t], call, ok, language, decks, models)} :
                  /\ tasks' = [tasks EXCEPT ![t] = left.task]
                  /\ language' = left.language
                  /\ decks' = left.decks
    /\ UNCHANGED <<wiring, models, handlers, typeTools, last, prev, setup, listing, noteStore>>

\* the response of a finished request is delivered
ConcDeliver(t) ==
    /\ tasks[t].pc = "done"
    /\ tasks' = [tasks EXCEPT ![t] = IdleTask]
    /\ UNCHANGED <<wiring, language, decks, models, handlers, typeTools, last, prev, setup,
                   listing, noteStore>>

\* the collections the user switches between in Anki
ConcCollections == {EnModels, ZhModels}

\* the user changes the note types in Anki
UpstreamChangeModels ==
    /\ \E m \in ConcCollections \ {models} : models' = m
    /\ UNCHANGED <<wiring, language, decks, handlers, typeTools, last, prev, setup, listing,
                   noteStore, tasks>>

ConcInit ==
    /\ wiring \in {"server", "router"}
    /\ language = DefaultLanguage
    /\ decks = {"Default"}
    /\ models \in ConcCollections
    /\ handlers = "registered"
    /\ typeTools = {}
    /\ last = Idle
    /\ prev = NoPrev
    /\ setup = <<>>
    /\ listing = NoListing
    /\ noteStore = NoNotes
    /\ tasks = [t \in TaskIds |-> IdleTask]

ConcNext ==
    \/ \E t \in TaskIds : ConcStart(t)
    \/ \E t \in TaskIds : ConcComplete(t)
    \/ \E t \in TaskIds : ConcDeliver(t)
    \/ UpstreamChangeModels

ConcSpec == ConcInit /\ [][ConcNext]_vars

-----------------------------------------------------------------------------
(* Properties *)

Called(name) == last # Idle /\ last.name = name

\* the upstream calls of the last request with this action
CallsOf(action) == {i \in DOMAIN last.calls : last.calls[i].action = action}

\* a batch_create_notes call that reached the loop over its notes
BatchRan == Called("batch_create_notes") /\ Has(last.args, "notes") /\ last.plan.probe

BatchResults == last.resp.content[1].text.value.results

\* the addNote calls issued while item k of the batch was processed
AddsOf(k) == {i \in CallsOf("addNote") : last.calls[i].item = k}

\* entry k reports the outcome of note k: a success carries the id the upstream
\* gave for the addNote of that note, a failure carries a message and no
\* addNote of that note succeeded
EntryReports(k) ==
    LET entry == BatchResults[k]
        note == last.args.notes[k]
    IN  IF entry.success
        THEN /\ DOMAIN entry = {"success", "data"}
             /\ \E i \in AddsOf(k) :
                    /\ last.calls[i].ok
                    /\ last.calls[i].result = entry.data
                    /\ last.calls[i].params.note.deckName = note.deck
                    /\ last.calls[i].params.note.fields = note.fields
        ELSE /\ DOMAIN entry = {"success", "error"}
             /\ \A i \in AddsOf(k) : ~last.calls[i].ok

\* C1: batch_create_notes with stopOnError=false on N notes returns exactly N
\* result entries, and entry k reports the outcome of note k, whatever notes fail.
C1_AllNotesReported ==
    (BatchRan /\ Has(last.args, "stopOnError") /\ last.args.stopOnError = FALSE)
    => /\ last.resp.kind = "ok"
       /\ Len(BatchResults) = Len(last.args.notes)
       /\ \A k \in 1..Len(BatchResults) : EntryReports(k)

\* a batch without stopping where a failed note is followed by a created one
C1_Witness ==
    /\ BatchRan /\ Has(last.args, "stopOnError") /\ last.args.stopOnError = FALSE
    /\ Len(last.args.notes) = 2
    /\ Len(BatchResults) = 2
    /\ ~BatchResults[1].success
    /\ BatchResults[2].success

\* The batch halted at its first failure: every entry but the last is a success,
\* the results stop short of the input only with a failure as the last entry,
\* each entry reports its note, and no upstream call was issued for a later note.
HaltedAtFirstFailure ==
    LET n == Len(BatchResults)
    IN  /\ last.resp.kind = "ok"
        /\ n <= Len(last.args.notes)
        /\ \A k \in 1..n : EntryReports(k)
        /\ \A k \in 1..(n - 1) : BatchResults[k].success
        /\ n < Len(last.args.notes) => ~BatchResults[n].success
        /\ \A i \in DOMAIN last.calls : last.calls[i].item <= n

\* C2: batch_create_notes with stopOnError=true whose first failing note is at
\* index i returns exactly i+1 entries (the first i successes, then the failure)
\* and issues no upstream call for any later note.
C2_StopsAtFirstFailure ==
    (BatchRan /\ Has(last.args, "stopOnError") /\ last.args.stopOnError = TRUE)
    => HaltedAtFirstFailure

\* a stopping batch of two notes that halted after its first note failed
C2_Witness ==
    /\ BatchRan /\ Has(last.args, "stopOnError") /\ last.args.stopOnError = TRUE
    /\ Len(last.args.notes) = 2
    /\ Len(BatchResults) = 1
    /\ ~BatchResults[1].success
    /\ CallsOf("addNote") = {}

\* C3: batch_create_notes without a stopOnError argument behaves as
\* stopOnError=true: it halts at the first failing note.
C3_DefaultStopsAtFirstFailure ==
    (BatchRan /\ ~Has(last.args, "stopOnError")) => HaltedAtFirstFailure

\* C4: create_deck twice in sequence with the same non-empty name, the upstream
\* answering and the deck list not changed in between, issues at most one
\* upstream createDeck in total, and both calls report success.
C4_CreateDeckIdempotent ==
    (/\ Called("create_deck") /\ Has(last.args, "name") /\ last.args.name # ""
     /\ last.plan = AllFine
     /\ prev.name = "create_deck" /\ prev.deck = last.args.name /\ prev.fine)
    => /\ prev.ok
       /\ last.resp.kind = "ok"
       /\ prev.created + Cardinality(CallsOf("createDeck")) <= 1

\* the second create_deck of a deck that the first one created upstream
C4_Witness ==
    /\ Called("create_deck") /\ Has(last.args, "name") /\ last.plan = AllFine
    /\ prev.name = "create_deck" /\ prev.deck = last.args.name /\ prev.fine
    /\ prev.created = 1
    /\ last.resp.kind = "ok"
    /\ CallsOf("deckNames") # {}

\* C5: when the version probe fails, the tool call fails with the InternalError
\* connection message whatever the operation name and arguments are, and the
\* probe is the only upstream call of the request.
C5_UniformConnectionError ==
    (last # Idle /\ ~last.plan.probe)
    => /\ last.resp = Failure(McpError("InternalError", ConnectionMessage))
       /\ Len(last.calls) = 1
       /\ last.calls[1].action = "version"

\* an unknown operation with no arguments, called while the upstream is down
C5_Witness ==
    /\ last # Idle /\ ~last.plan.probe
    /\ last.name \in UnknownNames
    /\ last.args = Null
    /\ last.resp.error.code = "InternalError"

\* the pattern create_<type>_note with a non-empty <type>
IsTypeToolName(name) ==
    /\ Len(name) > Len("create_") + Len("_note")
    /\ SubSeq(name, 1, Len("create_")) = "create_"
    /\ SubSeq(name, Len(name) - Len("_note") + 1, Len(name)) = "_note"

DynamicRoute == "ToolFactory.handleTypeSpecificNoteTool"

\* C6: with the upstream reachable, a name that is no static operation and does
\* not match create_<type>_note fails with MethodNotFound, and a static
\* operation is never routed to the dynamic note-creation path.
C6_UnknownToolRejected ==
    (last # Idle /\ last.plan.probe)
    => /\ (last.name \notin StaticTools /\ ~IsTypeToolName(last.name))
            => /\ last.resp.kind = "error"
               /\ last.resp.error.code = "MethodNotFound"
               /\ last.route = "none"
       /\ last.name \in StaticTools => last.route \notin {DynamicRoute, "none"}

\* create__note (an empty <type>) is rejected as an unknown tool
C6_Witness ==
    /\ last # Idle /\ last.plan.probe
    /\ last.name = "create__note"
    /\ last.resp.error.code = "MethodNotFound"

\* the field list upstream of a note type at the time of the call
FieldsBefore(type) == last.before.models[type].fields

\* C7: for every note type T that exists upstream, the tool the synthesizer
\* generated for T, called with a deck and a non-empty first field while the
\* upstream answers, issues an addNote whose modelName is T.
C7_TypedToolCreatesItsType ==
    \A T \in DOMAIN last.before.models :
        (/\ last # Idle /\ wiring = "router" /\ last.plan = AllFine
         /\ last.name = TypeToolName(T) /\ last.name \in typeTools
         /\ Truthy(last.args, "deck")
         /\ Truthy(last.args, FieldsBefore(T)[1]))
        => \E i \in CallsOf("addNote") : last.calls[i].params.note.modelName = T

\* the name of the Basic note type in the locale the request was served in
LocaleBasic == NoteModels.basic[language]

\* C8: create_note with type Basic, a deck, non-empty front and back and no
\* fields argument succeeds and issues exactly one addNote whose fields map has
\* exactly the title and body field of Basic in the current locale, mapped to
\* front and back.
C8_BasicShortcutCreatesNote ==
    (/\ Called("create_note") /\ last.plan = AllFine /\ last.args # Null
     /\ DOMAIN last.args = {"type", "deck", "front", "back"}
     /\ last.args.type = "Basic" /\ last.args.deck # ""
     /\ last.args.front # "" /\ last.args.back # ""
     /\ LocaleBasic \in DOMAIN last.before.models)
    => /\ last.resp.kind = "ok"
       /\ Cardinality(CallsOf("addNote")) = 1
       /\ \A i \in CallsOf("addNote") :
              last.calls[i].params.note.fields =
                  (FieldsBefore(LocaleBasic)[1] :> Str(last.args.front))
                  @@ (FieldsBefore(LocaleBasic)[2] :> Str(last.args.back))

\* the model name a note type resolves to: the locale's name of a built-in type,
\* the type itself otherwise
ResolvedModelName(type) ==
    IF type = "Basic" THEN NoteModels.basic[language]
    ELSE IF type = "Cloze" THEN NoteModels.cloze[language]
    ELSE type

\* C9: create_note with fields supplied directly (and no shortcut argument) for
\* an existing type, the fields naming every field of the type, issues exactly
\* one addNote with the deck, the resolved model name, the supplied fields
\* unchanged and the supplied tags (or none), and returns the note id in an
\* envelope of exactly one text entry.
C9_DirectFieldsSentVerbatim ==
    (/\ Called("create_note") /\ last.plan = AllFine /\ last.args # Null
     /\ {"type", "deck", "fields"} \subseteq DOMAIN last.args
     /\ DOMAIN last.args \subseteq {"type", "deck", "fields", "tags"}
     /\ last.args.type \in DOMAIN last.before.models /\ last.args.deck # ""
     /\ \A j \in DOMAIN FieldsBefore(last.args.type) :
            FieldsBefore(last.args.type)[j] \in DOMAIN last.args.fields)
    => /\ last.resp.kind = "ok"
       /\ Len(last.resp.content) = 1
       /\ last.resp.content[1].type = "text"
       /\ Cardinality(CallsOf("addNote")) = 1
       /\ \A i \in CallsOf("addNote") :
              /\ last.calls[i].params.note =
                     [deckName |-> last.args.deck,
                      modelName |-> ResolvedModelName(last.args.type),
                      fields |-> last.args.fields,
                      tags |-> IF Has(last.args, "tags") THEN last.args.tags ELSE <<>>]
              /\ last.resp.content[1].text.id = last.calls[i].result

\* C10: no addNote is ever issued with a fields map that lacks a field of the
\* note type, has a value that is not a string, or has an empty first field.
C10_OnlyValidNotesSent ==
    \A i \in CallsOf("addNote") :
        LET note == last.calls[i].params.note
        IN  /\ \A f \in DOMAIN note.fields : note.fields[f].t = "string"
            /\ note.modelName \in DOMAIN last.before.models
               => /\ \A j \in DOMAIN FieldsBefore(note.modelName) :
                         FieldsBefore(note.modelName)[j] \in DOMAIN note.fields
                  /\ note.fields[FieldsBefore(note.modelName)[1]].v # ""


-----------------------------------------------------------------------------
(* C20 *)

\* the answer invoke acted on: the one to its last attempt
Answer(entry) == entry.made[Len(entry.made)]

\* C20: AnkiConnectService.invoke returns a result only from a response whose
\* status is 200 and whose error is null; a response with a non-null error or
\* with another status is surfaced as a failure, on the first attempt and on
\* the retry alike.
C20_ResultOnlyFromCleanResponse ==
    last # Idle =>
        \A i \in DOMAIN last.calls :
            /\ last.calls[i].ok =>
                   /\ Answer(last.calls[i]).kind = "response"
                   /\ Answer(last.calls[i]).status = 200
                   /\ Answer(last.calls[i]).error = Null
            /\ (/\ Answer(last.calls[i]).kind = "response"
                /\ (Answer(last.calls[i]).status # 200 \/ Answer(last.calls[i]).error # Null))
                   => ~last.calls[i].ok


-----------------------------------------------------------------------------
(* C11 .. C14: the payload of batch_create_notes *)

\* the payload of the answer to a batch that reached the loop
BatchAnswered == BatchRan /\ last.resp.kind = "ok"
BatchPayload == last.resp.content[1].text.value

\* the beginning of the escaping hint of mcpTools.test.ts, line 166
HintText == " Hint: If this error relates to a field with HTML/MathJax, ensure special characters are correctly escaped"

EndsWith(s, suffix) ==
    Len(s) >= Len(suffix) /\ SubSeq(s, Len(s) - Len(suffix) + 1, Len(s)) = suffix

\* a backslash that is not one of a doubled pair
RECURSIVE LoneBackslash(_)
LoneBackslash(s) ==
    IF s = "" THEN FALSE
    ELSE IF CharAt(s, 1) # "\\" THEN LoneBackslash(Rest(s))
    ELSE IF Len(s) >= 2 /\ CharAt(s, 2) = "\\" THEN LoneBackslash(SubSeq(s, 3, Len(s)))
    ELSE TRUE

HasCharacter(s, ch) == \E i \in 1..Len(s) : CharAt(s, i) = ch

\* some field value of the note holds '<', '&' or a lone backslash
NeedsHint(note) ==
    \E f \in DOMAIN note.fields :
        /\ note.fields[f].t = "string"
        /\ \/ HasCharacter(note.fields[f].v, "<")
           \/ HasCharacter(note.fields[f].v, "&")
           \/ LoneBackslash(note.fields[f].v)

\* the upstream rejected the addNote of item k
AddFailed(k) == \E i \in AddsOf(k) : ~last.calls[i].ok

\* C11: when the upstream rejects the addNote of a batch note, the error
\* reported for that note ends with the escaping hint exactly when some field
\* value of the note contains '<', '&' or a backslash that is not doubled.
C11_HintIffSpecialCharacters ==
    BatchAnswered =>
        \A k \in DOMAIN BatchResults :
            AddFailed(k) =>
                (EndsWith(BatchResults[k].error, HintText) <=> NeedsHint(last.args.notes[k]))

\* C12: batch_create_notes never raises for a failing note; the call as a
\* whole fails, with InvalidParams, only when the arguments are no object or
\* the notes are missing or empty.
C12_BatchFailsOnlyOnBadArguments ==
    (Called("batch_create_notes") /\ last.plan.probe) =>
        /\ last.resp.kind = "error" <=>
              (last.args = Null \/ ~Has(last.args, "notes") \/ last.args.notes = <<>>)
        /\ last.resp.kind = "error" => last.resp.error.code = "InvalidParams"

\* C13: the payload carries the counts `successful` and `failed`, and they
\* are the numbers of succeeded and failed entries.
C13_CountsMatchEntries ==
    BatchAnswered =>
        /\ Has(BatchPayload, "successful") /\ Has(BatchPayload, "failed")
        /\ BatchPayload.successful =
              Cardinality({k \in DOMAIN BatchResults : BatchResults[k].success})
        /\ BatchPayload.failed =
              Cardinality({k \in DOMAIN BatchResults : ~BatchResults[k].success})

\* C14: for a batch note whose deck is not upstream, createDeck for that deck
\* is issued before the addNote of the note, and the addNote names that deck.
C14_MissingDeckCreatedFirst ==
    BatchAnswered =>
        \A k \in DOMAIN BatchResults :
            \A i \in AddsOf(k) :
                last.args.notes[k].deck \notin last.before.decks =>
                    /\ \E j \in CallsOf("createDeck") :
                           j < i /\ last.calls[j].params.deck = last.args.notes[k].deck
                    /\ last.calls[i].params.note.deckName = last.args.notes[k].deck


-----------------------------------------------------------------------------
(* C16, C17: create_note_type and get_note_type_info *)

\* the list of note types the service fetched: the result of its modelNames call
ListFetched == CallsOf("modelNames") # {} /\ \A i \in CallsOf("modelNames") : last.calls[i].ok
FetchedList ==
    last.calls[CHOOSE i \in CallsOf("modelNames") : \A j \in CallsOf("modelNames") : j <= i].result

ValidTypeArgs ==
    /\ Truthy(last.args, "name")
    /\ Has(last.args, "fields") /\ Len(last.args.fields) > 0
    /\ Has(last.args, "templates") /\ Len(last.args.templates) > 0

\* C16: create_note_type issues createModel, once and with css defaulted to
\* the empty string, only when the name, the fields and the templates are
\* non-empty and the name is not in the fetched list of note types; otherwise
\* the call fails with InvalidParams and createModel is not issued.
C16_CreateModelOnlyWhenValid ==
    (Called("create_note_type") /\ last.plan.probe) =>
        /\ Cardinality(CallsOf("createModel")) <= 1
        /\ \A i \in CallsOf("createModel") :
              /\ ValidTypeArgs /\ ListFetched /\ last.args.name \notin FetchedList
              /\ last.calls[i].params =
                    [modelName |-> last.args.name,
                     inOrderFields |-> last.args.fields,
                     css |-> IF Has(last.args, "css") THEN last.args.css ELSE "",
                     cardTemplates |-> last.args.templates]
        /\ (ValidTypeArgs /\ ListFetched /\ last.args.name \notin FetchedList)
              => Cardinality(CallsOf("createModel")) = 1
        /\ (~ValidTypeArgs \/ (ListFetched /\ last.args.name \in FetchedList))
              => /\ last.resp.kind = "error"
                 /\ last.resp.error.code = "InvalidParams"
                 /\ CallsOf("createModel") = {}

\* a new note type given without css is created with css ""
C16_Witness ==
    /\ Called("create_note_type") /\ last.resp.kind = "ok"
    /\ ~Has(last.args, "css")
    /\ \E i \in CallsOf("createModel") : last.calls[i].ok /\ last.calls[i].params.css = ""

\* the fan-out queries of the last request
QueryCalls == {i \in DOMAIN last.calls : last.calls[i].action \in ModelQueries}

\* the result of the query of this action
QueryResult(action) == last.calls[CHOOSE i \in CallsOf(action) : TRUE].result

\* C17: get_note_type_info returns a descriptor only if the name is in the
\* list of note types and all three fan-out queries succeed; for an absent
\* name it fails with InvalidParams and issues none of the three; if any one
\* query fails, in whatever order they settle, the call fails and no partial
\* descriptor is returned.
C17_DescriptorOnlyWhenAllQueriesSucceed ==
    (Called("get_note_type_info") /\ Truthy(last.args, "modelName") /\ ListFetched) =>
        /\ last.resp.kind = "ok" =>
              /\ last.args.modelName \in FetchedList
              /\ \A q \in ModelQueries : \E i \in CallsOf(q) : last.calls[i].ok
              /\ last.resp.content[1].text.value =
                    [modelName |-> last.args.modelName,
                     fields |-> QueryResult("modelFieldNames"),
                     templates |-> QueryResult("modelTemplates"),
                     css |-> QueryResult("modelStyling").css]
        /\ last.args.modelName \notin FetchedList =>
              /\ last.resp.kind = "error"
              /\ last.resp.error.code = "InvalidParams"
              /\ QueryCalls = {}
        /\ (\E i \in QueryCalls : ~last.calls[i].ok) =>
              /\ last.resp.kind = "error"
              /\ last.resp.content = <<>>

\* the query that settles last is the only one that fails, and it is not the
\* one written last
C17_Witness ==
    /\ Called("get_note_type_info") /\ last.resp.kind = "error"
    /\ Cardinality(QueryCalls) = 3
    /\ ~last.calls[Len(last.calls)].ok
    /\ last.calls[Len(last.calls)].action = "modelFieldNames"
    /\ \A i \in QueryCalls : i < Len(last.calls) => last.calls[i].ok


-----------------------------------------------------------------------------
(* C15 *)

\* get_note_type_info for the note type the call before it created, with
\* the upstream answering every query
ReadsBackCreatedType ==
    /\ Called("get_note_type_info")
    /\ prev.name = "create_note_type" /\ prev.ok
    /\ Truthy(last.args, "modelName") /\ last.args.modelName = prev.type.name
    /\ last.plan.probe /\ last.plan.bad = {}

\* C15: after a successful create_note_type, a get_note_type_info for that
\* name that follows it with no upstream change in between succeeds and
\* reports the same fields in the same order and the same set of template names.
C15_CreatedTypeReadBack ==
    ReadsBackCreatedType =>
        /\ last.resp.kind = "ok"
        /\ last.resp.content[1].text.value.fields = prev.type.fields
        /\ DOMAIN last.resp.content[1].text.value.templates =
              {prev.type.templates[i].name : i \in DOMAIN prev.type.templates}

C15_Witness ==
    /\ ReadsBackCreatedType
    /\ last.resp.kind = "ok"
    /\ Len(prev.type.fields) = 2
    /\ last.plan.order # CallOrder


-----------------------------------------------------------------------------
(* C19 *)

\* the note type a synthesized call is handled for
CalledModelName == ReplaceUnderscores(TypeToolMatch(last.name).group)

\* a call of a synthesized operation that reached its handler
TypedCall == last # Idle /\ last.route = DynamicRoute /\ last.plan.probe

\* the deck argument is missing or empty
DeckMissing == ~Truthy(last.args, "deck")

\* the first declared field of the note type is absent from the arguments or empty
FirstFieldMissing ==
    /\ CalledModelName \in DOMAIN last.before.models
    /\ ~Truthy(last.args, last.before.models[CalledModelName].fields[1])

\* C19: a call of a synthesized operation fails with InvalidParams, and no
\* addNote is issued, when the deck is missing or empty or the first declared
\* field is absent or empty; arguments that are no declared field of the note
\* type never appear among the fields sent upstream.
C19_TypedToolValidatesArguments ==
    TypedCall =>
        /\ (DeckMissing \/ FirstFieldMissing) =>
              /\ last.resp.kind = "error"
              /\ last.resp.error.code = "InvalidParams"
              /\ CallsOf("addNote") = {}
        /\ \A i \in CallsOf("addNote") :
              DOMAIN last.calls[i].params.note.fields \subseteq
                  {last.before.models[CalledModelName].fields[k] :
                      k \in DOMAIN last.before.models[CalledModelName].fields}


-----------------------------------------------------------------------------
(* C18 *)

\* the note types listed when the handlers were set up
SetupModels == setup[1].result

\* the three queries about this note type all succeeded at setup
FetchedAtSetup(m) ==
    \A q \in ModelQueries :
        \E i \in DOMAIN setup :
            setup[i].action = q /\ setup[i].params.modelName = m /\ setup[i].ok

\* C18: tool synthesis is best-effort: whichever descriptor fetches fail, the
\* listing has the eleven static operations and one synthesized operation for
\* each note type whose descriptor fetch succeeded.
C18_ListingBestEffort ==
    (listing.listed /\ wiring = "router") =>
        /\ StaticTools \subseteq listing.tools
        /\ Cardinality(StaticTools) = 11
        /\ listing.tools \ StaticTools =
              {TypeToolName(m) : m \in {n \in SetupModels : FetchedAtSetup(n)}}
        /\ Cardinality(listing.tools \ StaticTools) =
              Cardinality({n \in SetupModels : FetchedAtSetup(n)})

\* a listing after a setup in which one descriptor fetch failed and one succeeded
C18_Witness ==
    /\ listing.listed /\ wiring = "router"
    /\ \E m \in SetupModels : ~FetchedAtSetup(m)
    /\ \E m \in SetupModels : FetchedAtSetup(m) /\ TypeToolName(m) \in listing.tools


-----------------------------------------------------------------------------
(* C21 *)

\* the retry attempt of the invocation itself failed: no response came
RetryFailed(entry) == Len(entry.made) = 2 /\ entry.made[2].kind # "response"

\* C21: AnkiConnectService.invoke makes at most two HTTP attempts; the second
\* is made only after the first failed with a timeout or a connection reset,
\* never after a refused connection or an answer of the upstream (an error or
\* another status); a retry attempt that fails ends the invocation with an
\* InternalError.
C21_AtMostOneRetry ==
    last # Idle =>
        \A i \in DOMAIN last.calls :
            /\ Len(last.calls[i].made) \in 1..2
            /\ Len(last.calls[i].made) = 2 =>
                  /\ last.calls[i].made[1].kind = "axiosError"
                  /\ last.calls[i].made[1].code \in {"ETIMEDOUT", "ECONNRESET"}
            /\ (\/ last.calls[i].made[1].kind = "response"
                \/ last.calls[i].made[1].code = "ECONNREFUSED") =>
                  Len(last.calls[i].made) = 1
            /\ RetryFailed(last.calls[i]) =>
                  ~last.calls[i].ok /\ last.calls[i].err.code = "InternalError"

\* a reset connection is retried and the retry times out
C21_Witness ==
    /\ last # Idle
    /\ \E i \in DOMAIN last.calls :
           /\ last.calls[i].made[1].code = "ETIMEDOUT"
           /\ RetryFailed(last.calls[i])
           /\ last.calls[i].made[2].code = "ECONNRESET"
           /\ last.calls[i].err.code = "InternalError"


-----------------------------------------------------------------------------
(* C23 *)

\* a call whose preflight ran detectLanguage: the probe succeeded while the
\* language was still the default
Detected ==
    /\ last # Idle /\ wiring = "server"
    /\ last.before.language = DefaultLanguage
    /\ last.calls # <<>> /\ last.calls[1].ok

\* the answer detectLanguage got to its modelNames query
DetectionQuery == last.calls[2]

\* C23: detectLanguage never fails and sets the language to en if the en
\* canonical Basic name is in the list of note types, otherwise to zh if the zh
\* canonical Basic name is, otherwise to en; and to en when the query fails.
C23_DetectionRule ==
    Detected =>
        /\ Len(last.calls) >= 2 /\ DetectionQuery.action = "modelNames"
        /\ last.route # "none"
        /\ ~(last.resp.kind = "error" /\ last.resp.error.msg = ConnectionMessage)
        /\ language =
              IF ~DetectionQuery.ok THEN "en"
              ELSE IF NoteModels.basic.en \in DetectionQuery.result THEN "en"
              ELSE IF NoteModels.basic.zh \in DetectionQuery.result THEN "zh"
              ELSE "en"

\* both canonical names are listed and the language is set to en
C23_Witness ==
    /\ Detected
    /\ DetectionQuery.ok
    /\ {NoteModels.basic.en, NoteModels.basic.zh} \subseteq DetectionQuery.result
    /\ language = "en"

-----------------------------------------------------------------------------
(* update_note *)

\* the upstream calls of the preflight: the version probe and, in the server
\* of AnkiMcpServer.ts while the language is the default one, the detection
Preflight ==
    IF wiring = "server" /\ last.before.language = DefaultLanguage /\ last.calls[1].ok
    THEN 2 ELSE 1

\* the upstream calls of the handler itself
HandlerCalls == SubSeq(last.calls, Preflight + 1, Len(last.calls))

\* an update_note call with a valid id and fields that passed the preflight
ValidUpdate ==
    /\ last # Idle
    /\ last.name = "update_note"
    /\ Has(last.args, "id") /\ ValidNoteId(last.args.id)
    /\ Has(last.args, "fields") /\ DOMAIN last.args.fields # {}
    /\ last.calls # <<>> /\ last.calls[1].ok

UpdateSequence ==
    IF Has(last.args, "tags") THEN <<"updateNoteFields", "clearTags", "addTags">>
    ELSE <<"updateNoteFields">>

\* C24: an update_note call with a valid id and non-empty fields issues
\* updateNoteFields first and, only when tags are given, clearTags and then
\* addTags; without tags it issues exactly one call; no call is issued after
\* an earlier one failed, and none is left out while the earlier ones succeed.
C24_UpdateCallsInOrder ==
    ValidUpdate =>
        /\ Len(HandlerCalls) \in 1..Len(UpdateSequence)
        /\ \A i \in DOMAIN HandlerCalls :
               /\ HandlerCalls[i].action = UpdateSequence[i]
               /\ i < Len(HandlerCalls) => HandlerCalls[i].ok
        /\ HandlerCalls[1].params = [note |-> [id |-> last.args.id, fields |-> last.args.fields]]
        /\ (\A i \in DOMAIN HandlerCalls : HandlerCalls[i].ok) =>
               /\ Len(HandlerCalls) = Len(UpdateSequence)
               /\ last.resp.kind = "ok"
        /\ (\E i \in DOMAIN HandlerCalls : ~HandlerCalls[i].ok) => last.resp.kind = "error"

\* the three calls were issued in order and all succeeded
C24_Witness ==
    /\ ValidUpdate
    /\ Has(last.args, "tags")
    /\ Len(HandlerCalls) = 3
    /\ HandlerCalls[3].action = "addTags"
    /\ HandlerCalls[3].params.tags = "t2 t4"
    /\ \A i \in 1..3 : HandlerCalls[i].ok

\* the handler's calls of one action
HandlerCallsOf(action) == {i \in DOMAIN HandlerCalls : HandlerCalls[i].action = action}

\* the upstream rejected addTags and did not reject clearTags
AddTagsFailed ==
    /\ ValidUpdate
    /\ \E i \in HandlerCallsOf("addTags") : ~HandlerCalls[i].ok
    /\ \A i \in HandlerCallsOf("clearTags") : HandlerCalls[i].ok

UpdatedNote == last.args.id.n

\* C25: when addTags fails after clearTags succeeded, update_note reports the
\* failure and the note is left without tags, its previous tags not restored,
\* with its fields already updated.
C25_TagReplacementNotAtomic ==
    (AddTagsFailed /\ UpdatedNote \in DOMAIN last.before.notes) =>
        /\ last.resp.kind = "error"
        /\ UpdatedNote \in DOMAIN noteStore
        /\ noteStore[UpdatedNote].tags = {}
        /\ \A f \in DOMAIN last.args.fields :
               noteStore[UpdatedNote].fields[f] = last.args.fields[f]

\* a note that had tags lost them to an update that reported a failure
C25_Witness ==
    /\ AddTagsFailed
    /\ UpdatedNote \in DOMAIN last.before.notes
    /\ last.before.notes[UpdatedNote].tags = {"t1", "t3"}
    /\ last.before.notes[UpdatedNote].fields["Front"] = Str("Q")
    /\ noteStore[UpdatedNote].tags = {}
    /\ noteStore[UpdatedNote].fields["Front"] = Str("Q2")
    /\ last.resp.kind = "error"

-----------------------------------------------------------------------------
(* Invalid arguments *)

\* the upstream actions that change the collection
MutatingActions ==
    {"createDeck", "addNote", "updateNoteFields", "clearTags", "addTags", "deleteNotes",
     "createModel"}

\* a note id that is not a number or not a positive one
BadNoteId(args, key) ==
    \/ ~Has(args, key)
    \/ args[key].t # "number"
    \/ (args[key].t = "number" /\ args[key].n <= 0)

EmptyList(args, key) == ~Has(args, key) \/ Len(args[key]) = 0

\* the last call carries one of the invalid arguments of its operation
InvalidArguments ==
    /\ last # Idle
    /\ CASE last.name = "create_deck" -> ~Truthy(last.args, "name")
         [] last.name = "search_notes" -> ~Truthy(last.args, "query")
         [] last.name \in {"get_note_info", "delete_note"} -> BadNoteId(last.args, "noteId")
         [] last.name = "update_note" ->
               \/ BadNoteId(last.args, "id")
               \/ ~Has(last.args, "fields")
               \/ DOMAIN last.args.fields = {}
         [] last.name = "create_note" ->
               ~Truthy(last.args, "type") \/ ~Truthy(last.args, "deck")
         [] last.name = "create_note_type" ->
               \/ ~Truthy(last.args, "name")
               \/ EmptyList(last.args, "fields")
               \/ EmptyList(last.args, "templates")
         [] OTHER -> FALSE

\* C29: a tool call with invalid caller arguments (empty deck name, empty
\* query, non-positive or non-numeric note id, empty fields on update, missing
\* type or deck on create_note, empty name, fields or templates on
\* create_note_type) is rejected, as invalid parameters once the preflight
\* passed, and issues no mutating upstream call: the collection is as before.
C29_InvalidArgumentsMutateNothing ==
    InvalidArguments =>
        /\ last.resp.kind = "error"
        /\ last.calls[1].ok => last.resp.error.code = "InvalidParams"
        /\ \A i \in DOMAIN last.calls : last.calls[i].action \notin MutatingActions
        /\ decks = last.before.decks
        /\ models = last.before.models
        /\ noteStore = last.before.notes

\* an update of note 0 passed the tool's type check and was rejected by the
\* service before any call of the operation
C29_Witness ==
    /\ InvalidArguments
    /\ last.name = "update_note"
    /\ Has(last.args, "id") /\ last.args.id.t = "number" /\ last.args.id.n = 0
    /\ last.calls[1].ok
    /\ last.resp.error = McpError("InvalidParams", "Valid note ID is required")

-----------------------------------------------------------------------------
(* Registration of the handlers *)

\* C30: after construction the list-tools and call-tool handlers are
\* eventually registered, whatever the upstream answers at startup.
C30_HandlersEventuallyRegistered == <>(handlers = "registered")

-----------------------------------------------------------------------------
(* Requests served at once *)

\* the positions in the log of a task where a call of the action is sent
IssuesOf(t, action) ==
    {i \in DOMAIN tasks[t].log :
        tasks[t].log[i].e = "issue" /\ tasks[t].log[i].call.action = action}

\* the requests being served are create_deck calls for the same deck, which
\* did not exist when either of them arrived
RacingCreateDecks ==
    /\ tasks # NoTasks
    /\ \A t \in TaskIds : tasks[t].tool = "create_deck" /\ ~tasks[t].hadDeck

\* C28: of two concurrent create_deck calls with the same name for a deck
\* that does not exist yet, at most one issues an upstream createDeck.
C28_OneCreateDeckUnderRace ==
    RacingCreateDecks => Cardinality({t \in TaskIds : IssuesOf(t, "createDeck") # {}}) <= 1

\* C22: once the cached language is the non-default one, no step sets it
\* back to the default.
C22_NonDefaultLanguageKept == [][language # DefaultLanguage => language' = language]_vars

\* the upstream calls of the notes of a batch are sent one at a time
Sequential(t) ==
    /\ Cardinality(tasks[t].waiting) <= 1
    /\ \A i \in IssuesOf(t, "addNote") :
           /\ tasks[t].log[i].call.item =
                  Cardinality({j \in IssuesOf(t, "addNote") : j < i}) + 1
           /\ tasks[t].log[i].call.item >= 2 =>
                  \E j \in 1..(i - 1) :
                      /\ tasks[t].log[j].e = "done"
                      /\ tasks[t].log[j].call.action = "addNote"
                      /\ tasks[t].log[j].call.item = tasks[t].log[i].call.item - 1
    /\ \A call \in tasks[t].waiting :
           call.action = "addNote" => Len(tasks[t].results) = call.item - 1

\* C26: within one batch_create_notes call the upstream calls of the notes
\* are issued in input order with at most one outstanding: the call of note
\* k+1 is issued only after the outcome of note k was recorded in the results.
C26_BatchIsSequential ==
    tasks # NoTasks =>
        \A t \in TaskIds : tasks[t].tool = "batch_create_notes" => Sequential(t)

\* a batch whose first note failed went on to the second while the other
\* request had a call outstanding
C26_Witness ==
    /\ tasks # NoTasks
    /\ \E t \in TaskIds :
           /\ tasks[t].tool = "batch_create_notes"
           /\ tasks[t].results = <<FALSE>>
           /\ \E call \in tasks[t].waiting : call.action = "addNote" /\ call.item = 2
           /\ \E u \in TaskIds \ {t} : tasks[u].waiting # {}

Languages == {"en", "zh"}

\* the model name and the field names of the note are those of one language
OneLocale(note) ==
    \E lang \in Languages :
        /\ note.modelName = NoteModels.basic[lang]
        /\ DOMAIN note.fields = {getFieldNames("Basic", lang).front,
                                 getFieldNames("Basic", lang).back}

\* C27: under any interleaving of language detections with concurrent note
\* creations, every addNote built from the legacy shortcuts carries the model
\* name and the field names of the same language.
C27_NoteOfOneLocale ==
    tasks # NoTasks =>
        \A t \in TaskIds : \A i \in IssuesOf(t, "addNote") : OneLocale(tasks[t].log[i].call.note)

\* the language changed between the arrival of a create_note request and its
\* createNote, by the detection of the other request
C27_Witness ==
    /\ tasks # NoTasks
    /\ \E t \in TaskIds :
           /\ tasks[t].tool = "create_note"
           /\ tasks[t].lang0 = "en"
           /\ IssuesOf(t, "modelNames") = {}
           /\ \E i \in IssuesOf(t, "addNote") :
                  tasks[t].log[i].call.note.modelName = NoteModels.basic.zh

====
